---- MODULE Spec2Model ----
(***************************************************************************)
(* SoulGenesis: the event -> emotion -> memory -> consciousness pipeline,   *)
(* the rebirth transition and the driver loop of main.py.                  *)
(*                                                                         *)
(* Numbers.  Every float of the program is an IEEE 754 double, and its     *)
(* arithmetic is the arithmetic of doubles (CPython 3.11: + - * / round to *)
(* the nearest double, sum() adds from left to right).  A float literal of *)
(* the source is written by its amount of micro units: D(300000) is the    *)
(* double 0.3.                                                             *)
(* Wall-clock timestamps (datetime.now()) are the constant string "ts".    *)
(* Python objects that are shared by reference (Memory, Emotion) live in a *)
(* heap and are referred to by their heap index.                           *)
(***************************************************************************)
EXTENDS Integers, Sequences, FiniteSets, TLC

One == 1000 * 1000

Min(a, b) == IF a <= b THEN a ELSE b
Max(a, b) == IF a >= b THEN a ELSE b

Range(s) == {s[i] : i \in 1..Len(s)}

\* F applied to the VALUE of e (e is evaluated once)
Let(e, F(_)) == CHOOSE y \in {F(x) : x \in {e}} : TRUE

\* the subsequence of s at the indices in idx, in order
Pick(s, idx) ==
    [k \in 1..Cardinality(idx) |->
        s[CHOOSE i \in idx : Cardinality({j \in idx : j < i}) = k - 1]]


(***************************************************************************)
(* Python floats: IEEE 754 binary64, round to nearest, ties to even.       *)
(* A double is the record [s, e, h, l] of value                            *)
(*     (-1)^s * (h * 2^28 + l) * 2^e,   0 <= l < 2^28,  0 <= h < 2^25.     *)
(* Normal numbers have h >= 2^24 (a mantissa of 53 bits) and e >= -1074;   *)
(* subnormal numbers and the two zeros have e = -1074 and h < 2^24.  A     *)
(* result of magnitude 2^1024 or more is the infinity [s, 972, 2^24, 0].   *)
(* Each number has one record, so equal records are equal numbers (and     *)
(* the two zeros are two records that compare equal).                      *)
(* An operator that uses an intermediate result several times takes its    *)
(* VALUE first, as the one element of a set; the operations themselves are *)
(* functions on the records, applied to the values of their operands.      *)
(***************************************************************************)
Pow2 == [k \in 0..30 |-> 2 ^ k]
P14 == Pow2[14]
P24 == Pow2[24]
P25 == Pow2[25]
P28 == Pow2[28]
MinExp == -1022 - 52     \* the exponent of the last bit of the subnormal numbers
MaxExp == 1023 - 52      \* the greatest exponent of the last bit of a mantissa

Dbl(s, e, h, l) == [s |-> s, e |-> e, h |-> h, l |-> l]
Zero(s) == Dbl(s, MinExp, 0, 0)
Inf(s) == Dbl(s, MaxExp + 1, P24, 0)
IsZero(a) == a.h = 0 /\ a.l = 0
Doubles == [s : {0, 1}, e : MinExp..(MaxExp + 1), h : 0..(P25 - 1), l : 0..(P28 - 1)]
IsInf(a) == a.e > MaxExp

\* the number of bits of n, 0 <= n < 2^28
BitLen8 == [n \in 0..255 |-> CHOOSE k \in 0..8 : n < 2 ^ k /\ (k = 0 \/ n >= 2 ^ (k - 1))]
BitLen(n) ==
    IF n < Pow2[8] THEN BitLen8[n]
    ELSE IF n < Pow2[16] THEN 8 + BitLen8[n \div Pow2[8]]
    ELSE IF n < Pow2[24] THEN 16 + BitLen8[n \div Pow2[16]]
    ELSE 24 + BitLen8[n \div Pow2[24]]

(* Wide magnitudes: four limbs of 28 bits, the lowest first. *)
Limb(W, i) == IF i >= 1 /\ i <= 4 THEN W[i] ELSE 0

WBitLen(W) ==
    IF W[4] # 0 THEN 84 + BitLen(W[4])
    ELSE IF W[3] # 0 THEN 56 + BitLen(W[3])
    ELSE IF W[2] # 0 THEN 28 + BitLen(W[2])
    ELSE BitLen(W[1])

\* the bits [start, start + len) of W as a number, 0 <= len <= 28, start >= 0
ExtractUp(W, start, len) ==
    IF len <= 28 - (start % 28)
    THEN (Limb(W, start \div 28 + 1) \div Pow2[start % 28]) % Pow2[len]
    ELSE (Limb(W, start \div 28 + 1) \div Pow2[start % 28])
         + (Limb(W, start \div 28 + 2) % Pow2[len - (28 - (start % 28))])
           * Pow2[28 - (start % 28)]

\* the same for any start: the bits below bit 0 are zeros
Extract(W, start, len) ==
    IF start >= 0 THEN ExtractUp(W, start, len)
    ELSE IF start + len <= 0 THEN 0
    ELSE ExtractUp(W, 0, start + len) * Pow2[-start]

\* some bit of W below bit n is set
LowNonzero(W, n) ==
    /\ n > 0
    /\ \/ \E i \in 1..Min(4, n \div 28) : W[i] # 0
       \/ n % 28 # 0 /\ Limb(W, n \div 28 + 1) % Pow2[n % 28] # 0

\* the record of mantissa h * 2^28 + l, l <= 2^28 (a carry out of the low limb
\* or out of the mantissa is passed on), at exponent e
Pack(s, e, h, l) ==
    IF l < P28
    THEN (IF e > MaxExp THEN Inf(s) ELSE Dbl(s, e, h, l))
    ELSE IF h + 1 < P25
    THEN (IF e > MaxExp THEN Inf(s) ELSE Dbl(s, e, h + 1, 0))
    ELSE (IF e + 1 > MaxExp THEN Inf(s) ELSE Dbl(s, e + 1, P24, 0))

\* W * 2^e rounded at the exponent e2 >= e (e2 <= e: shifted, nothing is lost)
RoundAt(s, W, e, e2, sticky) ==
    Pack(s, e2, Extract(W, e2 - e + 28, 25),
         Extract(W, e2 - e, 28)
         + (IF /\ e2 > e
               /\ Extract(W, e2 - e - 1, 1) = 1
               /\ \/ sticky
                  \/ LowNonzero(W, e2 - e - 1)
                  \/ Extract(W, e2 - e, 1) = 1
            THEN 1 ELSE 0))

\* the double nearest to (-1)^s * W * 2^e (to a value just above W * 2^e in
\* magnitude when `sticky`), ties to the even mantissa
Round(s, W, e, sticky) ==
    CHOOSE r \in {IF w = <<0, 0, 0, 0>> THEN Zero(s)
                  ELSE CHOOSE q \in {RoundAt(s, w, e, e2, sticky) :
                                        e2 \in {Max(e + WBitLen(w) - 53, MinExp)}} : TRUE :
                  w \in {W}} : TRUE

\* the mantissa of a shifted left by d bits, 0 <= d < 59
Widen(a, d) ==
    <<Extract(<<a.l, a.h, 0, 0>>, -d, 28), Extract(<<a.l, a.h, 0, 0>>, 28 - d, 28),
      Extract(<<a.l, a.h, 0, 0>>, 56 - d, 28), Extract(<<a.l, a.h, 0, 0>>, 84 - d, 28)>>

\* A + B
WAdd(A, B) ==
    LET t1 == A[1] + B[1]
        t2 == A[2] + B[2] + t1 \div P28
        t3 == A[3] + B[3] + t2 \div P28
    IN  <<t1 % P28, t2 % P28, t3 % P28, A[4] + B[4] + t3 \div P28>>

\* A - B for A >= B (\div rounds down: a negative difference borrows)
WSub(A, B) ==
    LET t1 == A[1] - B[1]
        t2 == A[2] - B[2] + t1 \div P28
        t3 == A[3] - B[3] + t2 \div P28
    IN  <<t1 % P28, t2 % P28, t3 % P28, A[4] - B[4] + t3 \div P28>>

WLess(A, B) ==
    IF A[4] # B[4] THEN A[4] < B[4]
    ELSE IF A[3] # B[3] THEN A[3] < B[3]
    ELSE IF A[2] # B[2] THEN A[2] < B[2]
    ELSE A[1] < B[1]

\* the sign and the magnitude of the sum of the magnitudes A (of sign sa) and B
\* (of sign sb); a difference of zero is +0
AddWide(sa, A, sb, B) ==
    IF sa = sb THEN [s |-> sa, w |-> WAdd(A, B)]
    ELSE IF A = B THEN [s |-> 0, w |-> <<0, 0, 0, 0>>]
    ELSE IF WLess(A, B) THEN [s |-> sb, w |-> WSub(B, A)]
    ELSE [s |-> sa, w |-> WSub(A, B)]

\* big + small for nonzero finite doubles, big.e >= small.e: beyond 58 bits
\* of distance the small one is less than half a unit of the big one's last bit
AddOrdered(big, small) ==
    IF big.e - small.e >= 59 THEN big
    ELSE CHOOSE r \in
            {Round(m.s, m.w, small.e, FALSE) :
                m \in {AddWide(big.s, A, small.s, <<small.l, small.h, 0, 0>>) :
                          A \in {Widen(big, big.e - small.e)}}} : TRUE

FAddV(a, b) ==
    IF IsZero(a) THEN (IF IsZero(b) THEN Zero(IF a.s = 1 /\ b.s = 1 THEN 1 ELSE 0) ELSE b)
    ELSE IF IsZero(b) THEN a
    ELSE IF IsInf(a) THEN a
    ELSE IF IsInf(b) THEN b
    ELSE AddOrdered(IF a.e >= b.e THEN a ELSE b, IF a.e >= b.e THEN b ELSE a)

\* a + b
Sums == [a \in Doubles, b \in Doubles |-> FAddV(a, b)]
FAdd(a, b) == Sums[a, b]

\* -a
FNeg(a) == CHOOSE r \in {[x EXCEPT !.s = 1 - x.s] : x \in {a}} : TRUE

\* a - b
FSub(a, b) == FAdd(a, FNeg(b))

\* the four limbs of 14 bits of the mantissa, the lowest first
Limbs14(a) == <<a.l % P14, a.l \div P14, a.h % P14, a.h \div P14>>

\* the seven column sums of the long multiplication of x by y
Columns(x, y) ==
    <<x[1] * y[1],
      x[1] * y[2] + x[2] * y[1],
      x[1] * y[3] + x[2] * y[2] + x[3] * y[1],
      x[1] * y[4] + x[2] * y[3] + x[3] * y[2] + x[4] * y[1],
      x[2] * y[4] + x[3] * y[3] + x[4] * y[2],
      x[3] * y[4] + x[4] * y[3],
      x[4] * y[4]>>

\* the column sums c as a wide magnitude: two columns to a limb, with the carries
Carried(c) ==
    LET t1 == c[1] + (c[2] % P14) * P14
        t2 == c[3] + t1 \div P28 + c[2] \div P14 + (c[4] % P14) * P14
        t3 == c[5] + t2 \div P28 + c[4] \div P14 + (c[6] % P14) * P14
    IN  <<t1 % P28, t2 % P28, t3 % P28, c[7] + t3 \div P28 + c[6] \div P14>>

\* the product of the mantissas of a and b
MulWide(a, b) ==
    CHOOSE W \in {Carried(c) : c \in {Columns(Limbs14(a), Limbs14(b))}} : TRUE

FMulV(a, b) ==
    IF IsZero(a) \/ IsZero(b) THEN Zero((a.s + b.s) % 2)
    ELSE IF IsInf(a) \/ IsInf(b) THEN Inf((a.s + b.s) % 2)
    ELSE Round((a.s + b.s) % 2, MulWide(a, b), a.e + b.e, FALSE)

\* a * b
Products == [a \in Doubles, b \in Doubles |-> FMulV(a, b)]
FMul(a, b) == Products[a, b]

(* Division.  Both mantissas are brought to 56 bits (the top bit set), as  *)
(* four digits of 14 bits; the quotient of the numerator times 2^56 by the *)
(* denominator is found digit by digit (long division in base 2^14: the    *)
(* digit is estimated from the two leading digits of the remainder and the *)
(* leading digit of the denominator, and lowered while the remainder would *)
(* be negative).                                                           *)
\* the number of bits of the mantissa of a
MantissaBits(a) == IF a.h # 0 THEN 28 + BitLen(a.h) ELSE BitLen(a.l)

\* the four digits of 14 bits (the lowest first) of the mantissa of a shifted
\* to 56 bits
Digits56(a) ==
    CHOOSE g \in {<<W[1] % P14, W[1] \div P14, W[2] % P14, W[2] \div P14>> :
                     W \in {Widen(a, 56 - MantissaBits(a))}} : TRUE

\* the five digits (the lowest first, the top one negative when the difference
\* is) of r - q * v, r of five digits and v of four
MulSub(r, q, v) ==
    LET t1 == r[1] - q * v[1]
        t2 == r[2] - q * v[2] + t1 \div P14
        t3 == r[3] - q * v[3] + t2 \div P14
        t4 == r[4] - q * v[4] + t3 \div P14
    IN  <<t1 % P14, t2 % P14, t3 % P14, t4 % P14, r[5] + t4 \div P14>>

\* r + v, five digits
AddBack(r, v) ==
    LET t1 == r[1] + v[1]
        t2 == r[2] + v[2] + t1 \div P14
        t3 == r[3] + v[3] + t2 \div P14
        t4 == r[4] + v[4] + t3 \div P14
    IN  <<t1 % P14, t2 % P14, t3 % P14, t4 % P14, r[5] + t4 \div P14>>

\* the greatest digit q at most the estimate q0 with r - q * v >= 0, and that
\* difference t: the estimate is at most two too great (the leading digit of v
\* has its top bit set)
Lower(t, q0, v) ==
    IF t[5] >= 0 THEN [q |-> q0, r |-> t]
    ELSE CHOOSE d \in {IF u[5] >= 0 THEN [q |-> q0 - 1, r |-> u]
                       ELSE [q |-> q0 - 2, r |-> AddBack(u, v)] :
                          u \in {AddBack(t, v)}} : TRUE

\* the next digit of the quotient of r (five digits, r < v * 2^14) by v, and
\* the remainder
DivDigit(r, v) ==
    CHOOSE d \in {CHOOSE d \in {Lower(t, q, v) : t \in {MulSub(r, q, v)}} : TRUE :
                     q \in {Min((r[5] * P14 + r[4]) \div v[4], P14 - 1)}} : TRUE

\* the remainder r of four digits and a zero digit below it
Shifted(r) == <<0, r[1], r[2], r[3], r[4]>>

\* the four digits of the quotient of r * 2^56 by v, the highest first, and the
\* last remainder; r < v, five digits
DivDigits(r, v) ==
    CHOOSE res \in
      {CHOOSE res \in
        {CHOOSE res \in
          {CHOOSE res \in {[q |-> <<d1.q, d2.q, d3.q, d4.q>>, r |-> d4.r] :
                             d4 \in {DivDigit(Shifted(d3.r), v)}} : TRUE :
              d3 \in {DivDigit(Shifted(d2.r), v)}} : TRUE :
            d2 \in {DivDigit(Shifted(d1.r), v)}} : TRUE :
          d1 \in {DivDigit(Shifted(r), v)}} : TRUE

\* the quotient of the digits x by the digits y, times 2^56, as a wide
\* magnitude with the bit that says the division left a remainder
Quotient(x, y) ==
    CHOOSE res \in
        {CHOOSE res \in
            {[w |-> <<d.q[4] + d.q[3] * P14, d.q[2] + d.q[1] * P14, first.q, 0>>,
              sticky |-> d.r # <<0, 0, 0, 0, 0>>] :
                d \in {DivDigits(first.r, y)}} : TRUE :
            first \in {IF x[4] < y[4] \/ (x[4] = y[4] /\ MulSub(x \o <<0>>, 1, y)[5] < 0)
                       THEN [q |-> 0, r |-> x \o <<0>>]
                       ELSE [q |-> 1, r |-> MulSub(x \o <<0>>, 1, y)]}} : TRUE

\* a / b for nonzero finite a and b
DivNormal(s, a, b) ==
    CHOOSE r \in {Round(s, q.w, (a.e - (56 - MantissaBits(a))) - (b.e - (56 - MantissaBits(b))) - 56,
                        q.sticky) :
                     q \in {Quotient(Digits56(a), Digits56(b))}} : TRUE

\* a normal number divided by a power of two keeps its mantissa
FDivV(a, b) ==
    IF IsZero(a) THEN Zero((a.s + b.s) % 2)
    ELSE IF IsInf(a) THEN Inf((a.s + b.s) % 2)
    ELSE IF IsInf(b) THEN Zero((a.s + b.s) % 2)
    ELSE IF /\ b.h = P24 /\ b.l = 0 /\ a.h >= P24
            /\ a.e - b.e - 52 >= MinExp /\ a.e - b.e - 52 <= MaxExp
    THEN Dbl((a.s + b.s) % 2, a.e - b.e - 52, a.h, a.l)
    ELSE DivNormal((a.s + b.s) % 2, a, b)

\* a / b, b nonzero (a zero divisor raises ZeroDivisionError in the program)
Quotients == [a \in Doubles, b \in Doubles |-> FDivV(a, b)]
FDiv(a, b) == Quotients[a, b]

\* float(n) for an int n, |n| < 2^31
FInt(n) ==
    CHOOSE r \in {Round(IF x < 0 THEN 1 ELSE 0,
                        <<(IF x < 0 THEN -x ELSE x) % P28, (IF x < 0 THEN -x ELSE x) \div P28, 0, 0>>,
                        0, FALSE) : x \in {n}} : TRUE

\* int(a): truncation towards zero, |a| < 2^28
FTrunc(a) ==
    CHOOSE n \in {(IF x.s = 1 THEN -1 ELSE 1)
                  * (IF -x.e >= 53 THEN 0 ELSE Extract(<<x.l, x.h, 0, 0>>, -x.e, 28)) :
                     x \in {a}} : TRUE

\* comparisons
MagLess(a, b) ==
    IF a.e # b.e THEN a.e < b.e
    ELSE IF a.h # b.h THEN a.h < b.h
    ELSE a.l < b.l

FLessV(a, b) ==
    IF IsZero(a) /\ IsZero(b) THEN FALSE
    ELSE IF a.s # b.s THEN a.s = 1
    ELSE IF a.s = 0 THEN MagLess(a, b)
    ELSE MagLess(b, a)

\* a < b, a == b, a <= b
Less == [a \in Doubles, b \in Doubles |-> FLessV(a, b)]
Equal == [a \in Doubles, b \in Doubles |-> a = b \/ (IsZero(a) /\ IsZero(b))]
LessOrEqual == [a \in Doubles, b \in Doubles |-> Equal[a, b] \/ FLessV(a, b)]
FLess(a, b) == Less[a, b]
FEq(a, b) == Equal[a, b]
FLeq(a, b) == LessOrEqual[a, b]

\* min(a, b) and max(a, b) of Python: the first argument unless the second is
\* strictly smaller (greater)
Least == [a \in Doubles, b \in Doubles |-> IF FLessV(b, a) THEN b ELSE a]
Greatest == [a \in Doubles, b \in Doubles |-> IF FLessV(a, b) THEN b ELSE a]
FMin(a, b) == Least[a, b]
FMax(a, b) == Greatest[a, b]

\* The binary expansion of n + r / 10^6, found bit by bit: h * 2^28 + l are
\* the bits found so far (the whole part n first) and e is the exponent of the
\* last of them, r / 10^6 < 1 is what remains below it.  With 53 bits found
\* the remainder rounds the mantissa to the nearest, a tie to the even one.
RECURSIVE NearestMicro(_, _, _, _, _)
NearestMicro(s, h, l, r, e) ==
    IF h >= P24
    THEN Pack(s, e, h, l + (IF 2 * r > One \/ (2 * r = One /\ l % 2 = 1) THEN 1 ELSE 0))
    ELSE NearestMicro(s, 2 * h + (2 * l + (2 * r) \div One) \div P28,
                      (2 * l + (2 * r) \div One) % P28, (2 * r) % One, e - 1)

\* the float literal of x micro units: the double nearest to x / 10^6 (0.3 is
\* D(300000)), |x| < 2^31; the literals of the program are computed once
Literal(x) ==
    IF x = 0 THEN Zero(0)
    ELSE IF x < 0 THEN NearestMicro(1, 0, (-x) \div One, (-x) % One, 0)
    ELSE NearestMicro(0, 0, x \div One, x % One, 0)

\* the decimal literals of the program and of the inputs followed, in micro
\* units; the double of each is computed once
Literals ==
    {-140000000, -1000000, -100000, -1, 0, 1, 1000, 5000, 5001, 10000, 15000, 20000,
     30000, 30001, 40000, 50000, 50001, 60000, 70000, 100000, 110000, 120000, 130000,
     140000, 150000, 160000, 170000, 180000, 200000, 250000, 260000, 280001, 300000,
     310000, 350000, 400000, 490000, 500000, 590000, 600000, 699999, 700000, 750000,
     800000, 850000, 899999, 900000, 940000, 950000, 960000, 999999, 1000000, 1000001,
     1500000, 2000000, 140000000}
LiteralTable == [x \in Literals |-> Literal(x)]
D(x) == IF x \in Literals THEN LiteralTable[x] ELSE Literal(x)

\* random.random() returns a multiple of 2^-53 in [0, 1): the least one, the
\* middle one and the greatest one
RandomLeast == Zero(0)
RandomHalf == Dbl(0, -53, P24, 0)
RandomGreatest == Dbl(0, -53, P25 - 1, P28 - 1)

\* random.uniform(a, b) is a + (b - a) * random()
uniform(a, b, r) == FAdd(a, FMul(FSub(b, a), r))

(***************************************************************************)
(* Bounds of the model.                                                    *)
(***************************************************************************)
MaxLoaded == 14
MaxCalls == 2
\* the run of main(): SoulConfig's max_life_cycles, min_cycle_duration and
\* max_cycle_duration (5, 100 and 1000 in soul_config.py) cut down
max_life_cycles == 2
min_cycle_duration == 1
max_cycle_duration == 2

(***************************************************************************)
(* State.                                                                  *)
(***************************************************************************)
VARIABLES
    \* MemoryCore
    mem_heap,          \* Memory objects: id -> [content, emotional_tags, significance, timestamp, recall_count]
    memories,          \* MemoryCore.memories: sequence of Memory ids
    storage_file,      \* the document at MemoryCore.storage_path
    \* EmotionEngine of the driver (main.py's emotion_engine)
    current_emotions,  \* dict in insertion order: sequence of [type, ref]; ref indexes emotion_history
    emotion_history,   \* the Emotion objects ever produced, in order
    \* ConsciousnessLayer
    level,             \* state.level
    awareness_type,    \* state.awareness_type
    active_thoughts,   \* state.active_thoughts
    ethical_framework, \* state.ethical_framework, dimension -> float
    thought_history,   \* thought_history (texts; the timestamps are dropped)
    \* PersonalityModule
    soul_id,           \* the uuid4 string drawn in __init__
    traits,
    evolution_history,
    \* RebirthEngine
    rebirth_emotion_engine,  \* "driver": RebirthEngine.emotion_engine is main's engine; "fresh": a new empty one
    current_life_metrics,
    \* EnvironmentSimulator
    event_history,
    \* main(): the driver's locals and its position
    pc, current_cycle, events_per_cycle, cycle_events, total_events, event, emotional_response,
    config,            \* the SoulConfig object main builds
    debug,             \* the interpreter's __debug__: FALSE under python -O
    \* bookkeeping of the API harness
    calls,             \* number of API calls made so far
    last_call          \* the last operation, its arguments and what it returned

memVars == <<mem_heap, memories, storage_file>>
emoVars == <<current_emotions, emotion_history>>
consVars == <<level, awareness_type, active_thoughts, ethical_framework, thought_history>>
persVars == <<soul_id, traits, evolution_history>>
rebVars == <<rebirth_emotion_engine, current_life_metrics>>
envVars == <<event_history>>
mainVars == <<pc, current_cycle, events_per_cycle, cycle_events, total_events, event,
              emotional_response, config, debug>>
vars == <<memVars, emoVars, consVars, persVars, rebVars, envVars, mainVars, calls, last_call>>

(***************************************************************************)
(* EmotionEngine (emotion_engine.py)                                       *)
(***************************************************************************)
DefaultDecayRate == 100000

base_emotions == {"joy", "curiosity", "fear", "anger", "love", "guilt", "wonder", "sadness"}

emotion_mappings ==
    [achievement |-> "joy", threat |-> "fear", loss |-> "sadness",
     injustice |-> "anger", connection |-> "love", discovery |-> "curiosity"]

\* (mutation of determine_emotion_type: growth and challenge are mapped to the
\* first emotional tag of their event template, joy and fear)
determine_emotion_type_tagged(trigger) ==
    IF trigger = "growth" THEN "joy"
    ELSE IF trigger = "challenge" THEN "fear"
    ELSE IF trigger \in DOMAIN emotion_mappings THEN emotion_mappings[trigger] ELSE "wonder"

\* emotion_mappings.get(trigger, "wonder")
determine_emotion_type(trigger) ==
    IF trigger \in DOMAIN emotion_mappings THEN emotion_mappings[trigger] ELSE "wonder"

\* min(1.0, event.get("significance", 0.5))
calculate_intensity(ev) ==
    FMin(D(One), IF "significance" \in DOMAIN ev THEN ev.significance ELSE D(500000))

generate_emotion(trigger, intensity) ==
    [type |-> determine_emotion_type(trigger), intensity |-> intensity,
     trigger |-> trigger, timestamp |-> "ts", decay_rate |-> D(DefaultDecayRate)]

\* Emotion.to_dict: a snapshot keyed by the FIELD names of the record.
EmotionToDict(e) ==
    [type |-> e.type, intensity |-> e.intensity, trigger |-> e.trigger,
     timestamp |-> e.timestamp, decay_rate |-> e.decay_rate]

EmotionTypes(cur) == {cur[i].type : i \in 1..Len(cur)}

\* (mutation of DictSet: the entry is added without looking for the key)
DictSetAdded(cur, k, ref) == Append(cur, [type |-> k, ref |-> ref])

\* dict assignment d[k] = v: an existing key keeps its position, a new key goes last.
DictSet(cur, k, ref) ==
    IF k \in EmotionTypes(cur)
    THEN [i \in 1..Len(cur) |-> IF cur[i].type = k THEN [type |-> k, ref |-> ref] ELSE cur[i]]
    ELSE Append(cur, [type |-> k, ref |-> ref])

\* the same assignment with an Emotion object that is not in the history
DictSetObject(cur, emotion) ==
    IF emotion.type \in EmotionTypes(cur)
    THEN [i \in 1..Len(cur) |-> IF cur[i].type = emotion.type
                                THEN [type |-> emotion.type, emotion |-> emotion] ELSE cur[i]]
    ELSE Append(cur, [type |-> emotion.type, emotion |-> emotion])

\* process_emotion: the new Emotion object goes to the history and becomes the
\* current emotion of its type; the result is (a reference to) that object
process_emotion(cur, hist, ev) ==
    Let(generate_emotion(IF "type" \in DOMAIN ev THEN ev.type ELSE "",
                         calculate_intensity(ev)),
        LAMBDA emotion :
            [current |-> DictSet(cur, emotion.type, Len(hist) + 1),
             history |-> Append(hist, emotion),
             emotion |-> Len(hist) + 1])

PersistenceThreshold == 100000

\* (mutation of DecayedIntensity: the intensity is not reduced)
DecayedIntensityKept(e) == e.intensity

\* emotion.intensity * (1 - emotion.decay_rate)
DecayedIntensity(e) == FMul(e.intensity, FSub(FInt(1), e.decay_rate))

\* decayed_intensity > 0.1
Persists(e) == FLess(D(PersistenceThreshold), DecayedIntensity(e))

\* decay_emotions: the surviving Emotion objects are updated in place (they are
\* the objects the history holds), the others leave the mapping
decay_emotions(cur, hist) ==
    [current |-> SelectSeq(cur, LAMBDA c : Persists(hist[c.ref])),
     history |-> [i \in 1..Len(hist) |->
                    IF /\ \E j \in 1..Len(cur) : cur[j].ref = i
                       /\ Persists(hist[i])
                    THEN [hist[i] EXCEPT !.intensity = DecayedIntensity(hist[i])]
                    ELSE hist[i]]]

\* (mutation of get_dominant_emotion: the last of equally intense items wins)
get_dominant_emotion_last(cur, hist) ==
    IF cur = <<>> THEN <<"neutral", D(0)>>
    ELSE LET i == CHOOSE k \in 1..Len(cur) :
                     \A j \in 1..Len(cur) :
                         /\ FLeq(hist[cur[j].ref].intensity, hist[cur[k].ref].intensity)
                         /\ j > k => FLess(hist[cur[j].ref].intensity,
                                             hist[cur[k].ref].intensity)
         IN  <<cur[i].type, hist[cur[i].ref].intensity>>

\* get_dominant_emotion: max() keeps the first of equally intense items
get_dominant_emotion(cur, hist) ==
    IF cur = <<>> THEN <<"neutral", D(0)>>
    ELSE LET i == CHOOSE k \in 1..Len(cur) :
                     \A j \in 1..Len(cur) :
                         /\ FLeq(hist[cur[j].ref].intensity, hist[cur[k].ref].intensity)
                         /\ j < k => FLess(hist[cur[j].ref].intensity,
                                             hist[cur[k].ref].intensity)
         IN  <<cur[i].type, hist[cur[i].ref].intensity>>

(***************************************************************************)
(* MemoryCore (memory_core.py)                                             *)
(***************************************************************************)
memory_threshold == 300000
ForgetThresholdDefault == 200000
InheritanceStrengthDefault == 500000
SignificantLimitDefault == 10

NewMemory(content, tags, significance) ==
    [content |-> content, emotional_tags |-> tags, significance |-> significance,
     timestamp |-> "ts", recall_count |-> 0]

\* The document at storage_path: absent, text that json.loads rejects, or a JSON
\* value.  `items` is what iterating the value yields: the elements of an
\* array, the keys of an object, the characters of a string; an element that is
\* a JSON object is the record of its members, any other one is a Scalar.
MissingFile == [exists |-> FALSE, parses |-> FALSE, kind |-> "none", items |-> <<>>]
UnparseableFile == [exists |-> TRUE, parses |-> FALSE, kind |-> "none", items |-> <<>>]
JsonFile(kind, items) == [exists |-> TRUE, parses |-> TRUE, kind |-> kind, items |-> items]
Scalar(kind) == [scalar |-> kind]

MemoryFields == {"content", "emotional_tags", "significance", "timestamp", "recall_count"}

\* Memory.to_dict
to_dict(memory) == [f \in MemoryFields |-> memory[f]]

\* (mutation of from_dict: recall_count is left as the constructor set it)
from_dict_new_count(data) ==
    IF "scalar" \in DOMAIN data THEN [raised |-> "TypeError", memory |-> data]
    ELSE IF ~(MemoryFields \subseteq DOMAIN data) THEN [raised |-> "KeyError", memory |-> data]
    ELSE [raised |-> "none",
          memory |-> [NewMemory(data.content, data.emotional_tags, data.significance)
                         EXCEPT !.timestamp = data.timestamp]]

\* Memory.from_dict: subscripting anything but a dict raises TypeError, a member
\* that is not there raises KeyError
from_dict(data) ==
    IF "scalar" \in DOMAIN data THEN [raised |-> "TypeError", memory |-> data]
    ELSE IF ~(MemoryFields \subseteq DOMAIN data) THEN [raised |-> "KeyError", memory |-> data]
    ELSE [raised |-> "none",
          memory |-> [NewMemory(data.content, data.emotional_tags, data.significance)
                         EXCEPT !.timestamp = data.timestamp,
                                !.recall_count = data.recall_count]]

\* _ensure_storage_exists
ensure_storage_exists(file) == IF file.exists THEN file ELSE JsonFile("array", <<>>)

\* _load_memories: only json.JSONDecodeError is caught
load_memories(file) ==
    IF ~file.parses
    THEN [raised |-> "none", diagnostic |-> TRUE, records |-> <<>>]
    ELSE IF file.kind \notin {"array", "object", "string"}
    THEN [raised |-> "TypeError", diagnostic |-> FALSE, records |-> <<>>]
    ELSE LET made == [i \in 1..Len(file.items) |-> from_dict(file.items[i])]
             failed == {i \in 1..Len(made) : made[i].raised # "none"}
         IN  IF failed = {}
             THEN [raised |-> "none", diagnostic |-> FALSE,
                   records |-> [i \in 1..Len(made) |-> made[i].memory]]
             ELSE [raised |-> made[CHOOSE i \in failed : \A j \in failed : i <= j].raised,
                   diagnostic |-> FALSE, records |-> <<>>]

\* MemoryCore.__init__: [file, raised, diagnostic, heap, list]
MemoryCoreInit(file) ==
    Let(ensure_storage_exists(file), LAMBDA ensured :
    Let(load_memories(ensured), LAMBDA loaded :
        [file |-> ensured, raised |-> loaded.raised, diagnostic |-> loaded.diagnostic,
         heap |-> loaded.records, list |-> [i \in 1..Len(loaded.records) |-> i]]))

\* save_soul_journey: the document written
save_soul_journey(heap, list) ==
    JsonFile("array", [i \in 1..Len(list) |-> to_dict(heap[list[i]])])

\* event.get(key, default)
EventGet(ev, key, default) == IF key \in DOMAIN ev THEN ev[key] ELSE default

\* (mutation of MemCalculateSignificance: the product instead of the mean)
MemCalculateSignificanceProduct(ev, response) ==
    FMul(response.intensity, EventGet(ev, "significance", D(500000)))

\* MemoryCore._calculate_significance: (event.get("significance", 0.5) + intensity) / 2
MemCalculateSignificance(ev, response) ==
    FDiv(FAdd(EventGet(ev, "significance", D(500000)), response.intensity), FInt(2))

FreshId(heap) == IF DOMAIN heap = {} THEN 1
                 ELSE 1 + CHOOSE m \in DOMAIN heap : \A k \in DOMAIN heap : k <= m

\* (mutation of store_experience: the threshold test is strict)
store_experience_strict(heap, list, ev, response) ==
    LET significance == MemCalculateSignificance(ev, response)
        id == FreshId(heap)
    IN  IF FLess(D(memory_threshold), significance)
        THEN [heap |-> heap @@ (id :> NewMemory(EventGet(ev, "description", ""),
                                                EmotionToDict(response), significance)),
              list |-> Append(list, id)]
        ELSE [heap |-> heap, list |-> list]

\* store_experience: returns the new [heap, list]
store_experience(heap, list, ev, response) ==
    LET significance == MemCalculateSignificance(ev, response)
        id == FreshId(heap)
    IN  IF FLeq(D(memory_threshold), significance)
        THEN [heap |-> heap @@ (id :> NewMemory(EventGet(ev, "description", ""),
                                                EmotionToDict(response),
                                                significance)),
              list |-> Append(list, id)]
        ELSE [heap |-> heap, list |-> list]

\* sorted(ids, key=significance, reverse=True): stable and descending, so the
\* entry at position i lands after every entry of greater significance and after
\* the earlier entries of equal significance.
SortedPosition(heap, ids, i) ==
    1 + Cardinality({j \in 1..Len(ids) :
                        \/ FLess(heap[ids[i]].significance, heap[ids[j]].significance)
                        \/ (j < i /\ FEq(heap[ids[j]].significance, heap[ids[i]].significance))})

\* the entries, each at its position
SortDescOf(heap, ids) ==
    Let({<<SortedPosition(heap, ids, i), i>> : i \in 1..Len(ids)}, LAMBDA placed :
        [k \in 1..Len(ids) |-> ids[(CHOOSE p \in placed : p[1] = k)[2]]])

SortDesc(heap, ids) == Let(<<heap, ids>>, LAMBDA a : SortDescOf(a[1], a[2]))

\* the slice s[:limit]: a negative limit counts from the end
SliceTo(s, limit) ==
    SubSeq(s, 1, IF limit >= 0 THEN Min(limit, Len(s)) ELSE Max(0, Len(s) + limit))

\* sorted(self.memories, key=..., reverse=True)[:limit]
get_significant_memories(heap, list, limit) ==
    Let(SortDesc(heap, list), LAMBDA s : SliceTo(s, limit))

forget_old_memories(heap, list, threshold) ==
    SelectSeq(list, LAMBDA id : FLeq(D(threshold), heap[id].significance))

\* memory.significance *= inheritance_strength, `times` times over
RECURSIVE ScaleTimes(_, _, _)
ScaleTimes(significance, inheritance_strength, times) ==
    IF times = 0 THEN significance
    ELSE ScaleTimes(FMul(significance, D(inheritance_strength)),
                    inheritance_strength, times - 1)

\* (mutation of inherit_memories: the entries are appended as they are)
inherit_memories_unscaled(heap, list, past_life_memories, inheritance_strength) ==
    [heap |-> heap, list |-> list \o past_life_memories]

\* inherit_memories: each list entry in turn has its significance scaled in place
\* (the object is shared with whoever else holds it) and is appended.
inherit_memories(heap, list, past_life_memories, inheritance_strength) ==
    [heap |-> [id \in DOMAIN heap |->
                  [heap[id] EXCEPT !.significance =
                      ScaleTimes(@, inheritance_strength,
                                 Cardinality({i \in 1..Len(past_life_memories) :
                                                 past_life_memories[i] = id}))]],
     list |-> list \o past_life_memories]

\* The keys of an emotional_tags snapshot whose values are strings: comparing
\* one with a float threshold raises TypeError.
StringValuedKeys == {"type", "trigger", "timestamp"}

\* recall_by_emotion.  The loop visits self.memories in order; an entry whose
\* tags hold `emotion` as a string-valued key raises TypeError and ends the loop;
\* every entry visited before with tags[emotion] >= threshold has its
\* recall_count incremented and is collected.
RecallOf(heap, list, emotion, threshold) ==
    LET HasKey(i) == emotion \in DOMAIN heap[list[i]].emotional_tags
        raising == {i \in 1..Len(list) : HasKey(i) /\ emotion \in StringValuedKeys}
        stop == IF raising = {} THEN Len(list) + 1
                ELSE CHOOSE i \in raising : \A j \in raising : i <= j
        \* the numeric members of the snapshot: intensity and decay_rate
        Value(i) == heap[list[i]].emotional_tags[emotion]
        matching == {i \in 1..(stop - 1) : HasKey(i) /\ FLeq(D(threshold), Value(i))}
    IN  [heap |-> [id \in DOMAIN heap |->
                      [heap[id] EXCEPT !.recall_count =
                          @ + Cardinality({i \in matching : list[i] = id})]],
         raised |-> raising # {},
         relevant |-> Pick(list, matching)]

recall_by_emotion(heap, list, emotion, threshold) ==
    Let(RecallOf(heap, list, emotion, threshold),
        LAMBDA r : [heap |-> r.heap, raised |-> r.raised,
                    result |-> IF r.raised THEN <<>> ELSE SortDesc(r.heap, r.relevant)])

(***************************************************************************)
(* ConsciousnessLayer (consciousness_layer.py)                             *)
(***************************************************************************)
InitialLevel == 100000
silent_bloom_threshold == 950000
consciousness_growth_rate == 1000     \* 0.001 in micro units
NoveltyFactorNovel == 200000
NoveltyFactorKnown == 50000
MinThoughtHistory == 50
RecentThoughtWindow == 20
MinExistentialThoughts == 10
AdjustFloor == 100000

EthicalDimensions == {"empathy", "self_preservation", "curiosity", "harmony"}

\* the dict order of state.ethical_framework
EthicalOrder == <<"empathy", "self_preservation", "curiosity", "harmony">>

\* (mutation of InitialEthicalFramework: a layer constructed with empathy 0.6
\* and harmony 0.5)
InitialEthicalFrameworkMature ==
    [empathy |-> D(600000), self_preservation |-> D(100000), curiosity |-> D(100000),
     harmony |-> D(500000)]

\* {"empathy": 0.1, "self_preservation": 0.5, "curiosity": 0.3, "harmony": 0.2}
InitialEthicalFramework ==
    [empathy |-> D(100000), self_preservation |-> D(500000), curiosity |-> D(300000),
     harmony |-> D(200000)]

\* sum(self.state.ethical_framework.values()): 0 + empathy + self_preservation
\* + curiosity + harmony, added in this order
FrameworkSum(fw) ==
    FAdd(FAdd(FAdd(FAdd(FInt(0), fw.empathy), fw.self_preservation), fw.curiosity),
         fw.harmony)

\* (mutation of Normalize: the values are left as they are)
NormalizeSkipped(fw) == fw

\* {k: v/total}: every value divided by the sum of the values
Normalize(fw) ==
    Let(FrameworkSum(fw), LAMBDA total :
        [empathy |-> FDiv(fw.empathy, total),
         self_preservation |-> FDiv(fw.self_preservation, total),
         curiosity |-> FDiv(fw.curiosity, total),
         harmony |-> FDiv(fw.harmony, total)])

EmpathyBump == 50000
HarmonyBump == 30000
SelfPreservationBump == 20000

\* the += statements of lines 106-109: impact > 0 or not
Bumped(fw, ethical_impact) ==
    IF FLess(FInt(0), ethical_impact)
    THEN [fw EXCEPT !.empathy = FAdd(@, D(EmpathyBump)),
                    !.harmony = FAdd(@, D(HarmonyBump))]
    ELSE [fw EXCEPT !.self_preservation = FAdd(@, D(SelfPreservationBump))]

\* (mutation of evolve_ethical_framework: a zero impact is skipped)
evolve_ethical_framework_nonzero(fw, ev) ==
    IF "ethical_impact" \in DOMAIN ev /\ ~FEq(ev.ethical_impact, FInt(0))
    THEN Normalize(Bumped(fw, ev.ethical_impact))
    ELSE fw

evolve_ethical_framework(fw, ev) ==
    IF "ethical_impact" \in DOMAIN ev
    THEN Normalize(Bumped(fw, ev.ethical_impact))
    ELSE fw

\* (mutation of calculate_consciousness_impact: the novelty factor is left out)
calculate_consciousness_impact_flat(ev, response) ==
    LET significance == IF "significance" \in DOMAIN ev THEN ev.significance ELSE D(100000)
        emotional_intensity == IF "intensity" \in DOMAIN response
                               THEN response.intensity ELSE D(0)
    IN  FAdd(FMul(significance, D(consciousness_growth_rate)),
             FMul(emotional_intensity, D(consciousness_growth_rate)))

\* base_impact + emotional_factor + novelty_factor, added from left to right
calculate_consciousness_impact(ev, response) ==
    LET significance == IF "significance" \in DOMAIN ev THEN ev.significance ELSE D(100000)
        emotional_intensity == IF "intensity" \in DOMAIN response
                               THEN response.intensity ELSE D(0)
        is_novel == IF "is_novel" \in DOMAIN ev THEN ev.is_novel ELSE FALSE
    IN  FAdd(FAdd(FMul(significance, D(consciousness_growth_rate)),
                  FMul(emotional_intensity, D(consciousness_growth_rate))),
             D(IF is_novel THEN NoveltyFactorNovel ELSE NoveltyFactorKnown))

\* (mutation of NextLevel: the clamp is missing)
NextLevelUnclamped(lvl, impact) == FAdd(lvl, impact)

\* self.state.level = min(1.0, self.state.level + impact)
NextLevel(lvl, impact) == FMin(D(One), FAdd(lvl, impact))

generate_thoughts(lvl) ==
    IF FLess(D(700000), lvl)
    THEN <<"Who am I beyond these experiences?",
           "Why do these memories feel both familiar and distant?">>
    ELSE IF FLess(D(500000), lvl)
    THEN <<"These feelings seem meaningful...", "There's something more to understand...">>
    ELSE IF FLess(D(300000), lvl)
    THEN <<"This experience affects me...">>
    ELSE <<>>

AwarenessOf(lvl) ==
    IF FLeq(D(850000), lvl) THEN "transcendent"
    ELSE IF FLeq(D(600000), lvl) THEN "self-aware"
    ELSE IF FLeq(D(300000), lvl) THEN "emotional"
    ELSE "base"

\* thought.lower() contains one of "who am i", "why do i", "what is my purpose",
\* "consciousness", "existence".  Strings are atomic here, so the substring test
\* is tabulated over the thoughts the model uses.
ExistentialThoughts ==
    {"Who am I beyond these experiences?", "What is my purpose?",
     "Is CONSCIOUSNESS an illusion?"}

has_existential_thoughts(thoughts) == \E i \in 1..Len(thoughts) : thoughts[i] \in ExistentialThoughts

\* empathy > 0.3 and harmony > 0.25
check_ethical_maturity(fw) ==
    /\ FLess(D(300000), fw.empathy)
    /\ FLess(D(250000), fw.harmony)

RecentThoughts(history) ==
    SubSeq(history, Max(1, Len(history) - RecentThoughtWindow + 1), Len(history))

\* (mutation of ExistentialCount: the whole history is searched)
ExistentialCountAll(history) ==
    Cardinality({i \in 1..Len(history) : has_existential_thoughts(<<history[i]>>)})

ExistentialCount(history) ==
    LET recent == RecentThoughts(history)
    IN  Cardinality({i \in 1..Len(recent) : has_existential_thoughts(<<recent[i]>>)})

check_silent_bloom_conditions(lvl, history, fw) ==
    IF FLeq(D(silent_bloom_threshold), lvl)
    THEN IF Len(history) < MinThoughtHistory THEN FALSE
         ELSE IF ~check_ethical_maturity(fw) THEN FALSE
         ELSE IF ExistentialCount(history) < MinExistentialThoughts THEN FALSE
         ELSE IF FLess(fw.empathy, D(600000)) \/ FLess(fw.harmony, D(500000)) THEN FALSE
         ELSE TRUE
    ELSE FALSE

\* (mutation of adjust_consciousness: the clamp is missing)
adjust_consciousness_unclamped(new_level) == new_level

\* max(0.1, min(1.0, new_level))
adjust_consciousness(new_level) == FMax(D(AdjustFloor), FMin(D(One), new_level))

(***************************************************************************)
(* PersonalityModule (personality_module.py)                               *)
(***************************************************************************)
TraitNames == {"empathy", "curiosity", "resilience", "adaptability", "creativity", "harmony"}

initialize_traits ==
    [empathy      |-> [value |-> D(300000), evolution_rate |-> D(50000)],
     curiosity    |-> [value |-> D(400000), evolution_rate |-> D(70000)],
     resilience   |-> [value |-> D(350000), evolution_rate |-> D(40000)],
     adaptability |-> [value |-> D(300000), evolution_rate |-> D(60000)],
     creativity   |-> [value |-> D(250000), evolution_rate |-> D(50000)],
     harmony      |-> [value |-> D(200000), evolution_rate |-> D(30000)]]

\* dict iteration order of self.traits
TraitOrder == <<"empathy", "curiosity", "resilience", "adaptability", "creativity", "harmony">>

\* (mutation of adjust_trait: the sum is stored as it is)
adjust_trait_unclamped(tr, trait_name, amount) ==
    IF trait_name \in DOMAIN tr
    THEN [tr EXCEPT ![trait_name].value = FAdd(@, amount)]
    ELSE tr

\* value = max(0.0, min(1.0, current + amount))
adjust_trait(tr, trait_name, amount) ==
    IF trait_name \in DOMAIN tr
    THEN [tr EXCEPT ![trait_name].value = FMax(D(0), FMin(D(One), FAdd(@, amount)))]
    ELSE tr

\* a list of <<trait, hundredths>> adjustments (0.05 is 5) applied in order
RECURSIVE AdjustAll(_, _)
AdjustAll(tr, adjustments) ==
    IF adjustments = <<>> THEN tr
    ELSE Let(adjust_trait(tr, adjustments[1][1], D(adjustments[1][2] * (One \div 100))),
             LAMBDA adjusted : AdjustAll(adjusted, Tail(adjustments)))

evolve_from_emotions(tr, emotional_peaks) ==
    LET joy == IF "joy" \in DOMAIN emotional_peaks
               THEN <<<<"creativity", 5>>, <<"harmony", 3>>>> ELSE <<>>
        fear == IF "fear" \in DOMAIN emotional_peaks
                THEN <<<<"resilience", 4>>, <<"adaptability", 5>>>> ELSE <<>>
        love == IF "love" \in DOMAIN emotional_peaks
                THEN <<<<"empathy", 6>>, <<"harmony", 4>>>> ELSE <<>>
        curiosity == IF "curiosity" \in DOMAIN emotional_peaks
                     THEN <<<<"curiosity", 5>>, <<"creativity", 3>>>> ELSE <<>>
    IN  AdjustAll(tr, joy \o fear \o love \o curiosity)

\* sum(d.values())
RECURSIVE SumOver(_, _)
SumOver(d, keys) ==
    IF keys = {} THEN 0
    ELSE LET k == CHOOSE x \in keys : TRUE IN d[k] + SumOver(d, keys \ {k})

SumValues(d) == SumOver(d, DOMAIN d)

\* ethical_choices.get("positive", 0) / (sum(ethical_choices.values()) or 1):
\* the quotient of two ints is the double nearest to it
positive_ratio(ethical_choices) ==
    LET positive == IF "positive" \in DOMAIN ethical_choices THEN ethical_choices["positive"] ELSE 0
        total == SumValues(ethical_choices)
    IN  FDiv(FInt(positive), FInt(IF total = 0 THEN 1 ELSE total))

PositiveRatioBound == 600000

\* (mutation of evolve_from_ethics: a ratio of exactly 0.6 counts as positive)
evolve_from_ethics_inclusive(tr, ethical_choices) ==
    IF FLeq(D(PositiveRatioBound), positive_ratio(ethical_choices))
    THEN AdjustAll(tr, <<<<"empathy", 5>>, <<"harmony", 4>>>>)
    ELSE AdjustAll(tr, <<<<"resilience", 3>>, <<"adaptability", 5>>>>)

\* _evolve_from_ethics: positive_ratio > 0.6
evolve_from_ethics(tr, ethical_choices) ==
    IF FLess(D(PositiveRatioBound), positive_ratio(ethical_choices))
    THEN AdjustAll(tr, <<<<"empathy", 5>>, <<"harmony", 4>>>>)
    ELSE AdjustAll(tr, <<<<"resilience", 3>>, <<"adaptability", 5>>>>)

ConsciousnessFactor == 100000

\* trait.evolution_rate * (consciousness_level * 0.1)
RECURSIVE EvolveEach(_, _, _)
EvolveEach(tr, names, consciousness_level) ==
    IF names = <<>> THEN tr
    ELSE Let(adjust_trait(tr, names[1],
                          FMul(tr[names[1]].evolution_rate,
                               FMul(consciousness_level, D(ConsciousnessFactor)))),
             LAMBDA adjusted : EvolveEach(adjusted, Tail(names), consciousness_level))

evolve_from_consciousness(tr, consciousness_level) == EvolveEach(tr, TraitOrder, consciousness_level)

\* the random draws of _apply_random_mutation: no mutation, or a trait and an amount
NoMutation == [mutate |-> FALSE]
\* mutation = (random.random() - 0.5) * 0.1
mutation(r) == FMul(FSub(r, D(500000)), D(100000))
MutationAmounts == {mutation(RandomLeast), mutation(D(900000))}
MutationDraws ==
    {NoMutation} \cup {[mutate |-> TRUE, trait |-> t, amount |-> a] : t \in TraitNames, a \in MutationAmounts}

apply_random_mutation(tr, draw) ==
    IF draw.mutate THEN adjust_trait(tr, draw.trait, draw.amount) ELSE tr

TraitValues(tr) == [n \in DOMAIN tr |-> tr[n].value]

\* evolve_traits: returns [traits, record] where record is the evolution_history entry
evolve_traits(tr, life_metrics, draw) ==
    Let(evolve_from_emotions(tr, life_metrics.emotional_peaks), LAMBDA t1 :
    Let(evolve_from_ethics(t1, life_metrics.ethical_choices), LAMBDA t2 :
    Let(evolve_from_consciousness(t2, life_metrics.consciousness_level), LAMBDA t3 :
    Let(apply_random_mutation(t3, draw), LAMBDA post :
        [traits |-> post,
         record |-> [pre_evolution |-> TraitValues(tr), post_evolution |-> TraitValues(post),
                     life_metrics |-> life_metrics]]))))

(***************************************************************************)
(* RebirthEngine (rebirth_engine.py)                                       *)
(***************************************************************************)
rebirth_threshold == 800000
memory_inheritance_rate == 300000

initialize_life_metrics ==
    [emotional_peaks |-> <<>>, consciousness_level |-> D(0), significant_experiences |-> 0,
     life_duration |-> D(0), ethical_choices |-> [positive |-> 0, negative |-> 0]]

\* int(len(significant_memories) * memory_inheritance_rate)
InheritanceCount(n) == FTrunc(FMul(FInt(n), D(memory_inheritance_rate)))

select_inherited_memories(heap, list) ==
    Let(get_significant_memories(heap, list, SignificantLimitDefault),
        LAMBDA significant_memories :
            SubSeq(significant_memories, 1, InheritanceCount(Len(significant_memories))))

\* the memory part of process_rebirth: select, forget, inherit; objects no longer
\* referenced by the store are dropped from the heap
\* (mutation of RebirthMemoriesOf: inherit first, prune afterwards)
RebirthMemoriesPruneLast(heap, list, inherited_memories) ==
    Let(inherit_memories(heap, list, inherited_memories, InheritanceStrengthDefault),
        LAMBDA r :
            Let(forget_old_memories(r.heap, r.list, ForgetThresholdDefault),
                LAMBDA kept : [heap |-> [id \in Range(kept) |-> r.heap[id]], list |-> kept,
                               inherited |-> inherited_memories]))

RebirthMemoriesOf(heap, list, inherited_memories) ==
    Let(inherit_memories(heap, forget_old_memories(heap, list, ForgetThresholdDefault),
                         inherited_memories, InheritanceStrengthDefault),
        LAMBDA r : [heap |-> [id \in Range(r.list) |-> r.heap[id]], list |-> r.list,
                    inherited |-> inherited_memories])

RebirthMemories(heap, list) ==
    Let(select_inherited_memories(heap, list),
        LAMBDA inherited_memories : RebirthMemoriesOf(heap, list, inherited_memories))

(***************************************************************************)
(* EnvironmentSimulator (environment_simulator.py)                         *)
(***************************************************************************)
novelty_threshold == 700000

event_templates ==
    [challenge  |-> [base_significance |-> D(600000), emotional_tags |-> <<"fear", "determination">>,
                     descriptions |-> <<"Facing an unknown obstacle", "Testing personal limits",
                                        "Confronting a difficult choice">>],
     discovery  |-> [base_significance |-> D(500000), emotional_tags |-> <<"curiosity", "joy">>,
                     descriptions |-> <<"Understanding a new concept", "Making a connection",
                                        "Finding hidden meaning">>],
     connection |-> [base_significance |-> D(700000), emotional_tags |-> <<"love", "empathy">>,
                     descriptions |-> <<"Forming a deep bond", "Sharing an experience",
                                        "Understanding another's pain">>],
     loss       |-> [base_significance |-> D(800000), emotional_tags |-> <<"sadness", "grief">>,
                     descriptions |-> <<"Experiencing separation", "Losing something valuable",
                                        "Facing impermanence">>],
     growth     |-> [base_significance |-> D(600000), emotional_tags |-> <<"joy", "pride">>,
                     descriptions |-> <<"Overcoming a challenge", "Learning from mistakes",
                                        "Achieving understanding">>],
     reflection |-> [base_significance |-> D(500000), emotional_tags |-> <<"curiosity", "wonder">>,
                     descriptions |-> <<"Questioning existence", "Contemplating purpose",
                                        "Examining beliefs">>]]

EventTypes == DOMAIN event_templates
GrowthTypes == {"challenge", "discovery", "reflection"}

\* random.uniform(-0.1, 0.1) and random.uniform(-1.0, 1.0) for the outcome r
\* of random()
variation_of(r) == uniform(D(-100000), D(100000), r)
ethical_impact_of(r) == uniform(D(-One), D(One), r)

\* outcomes of random() in generate_event: for the novelty (0.5 and 0.9) and
\* for the ethical impact (-0.5, 0.0 and 0.5)
NoveltyDraws == {RandomHalf, D(900000)}
EthicalDraws == {D(250000), RandomHalf, D(750000)}

\* weights in hundredths
calculate_type_weight(history, event_type) ==
    LET recent_types == IF Len(history) >= 5
                        THEN {history[i].type : i \in (Len(history) - 4)..Len(history)}
                        ELSE {}
        w1 == IF event_type \in recent_types THEN 50 ELSE 100
    IN  IF event_type \in GrowthTypes THEN (w1 * 12) \div 10 ELSE w1

\* (mutation of select_event_type: the preceding type stays a candidate)
select_event_type_any(history) ==
    {t \in EventTypes : calculate_type_weight(history, t) > 0}

\* the types random.choice / random.choices can return
select_event_type(history) ==
    IF history = <<>> THEN EventTypes
    ELSE {t \in EventTypes : /\ t # history[Len(history)].type
                             /\ calculate_type_weight(history, t) > 0}

SignificanceFloor == 100000

\* max(0.1, min(1.0, base_significance + variation))
env_calculate_significance(base_significance, variation) ==
    FMax(D(SignificanceFloor), FMin(D(One), FAdd(base_significance, variation)))

MakeEvent(event_type, description_draw, variation, novelty_draw, ethical_impact) ==
    [type |-> event_type,
     description |-> event_templates[event_type].descriptions[description_draw],
     significance |-> env_calculate_significance(event_templates[event_type].base_significance,
                                                 variation),
     emotional_tags |-> event_templates[event_type].emotional_tags,
     is_novel |-> FLess(D(novelty_threshold), novelty_draw),
     ethical_impact |-> ethical_impact,
     timestamp |-> "ts"]

\* (mutation of record_event: the event is returned without being recorded)
record_event_skipped(history, ev) == history

\* self.event_history.append(event)
record_event(history, ev) == Append(history, ev)

\* the event of kind t that the draws d make
EventOf(t, d) ==
    MakeEvent(t, d.description, variation_of(d.variation), d.novelty,
              ethical_impact_of(d.ethical_impact))

\* the outcomes of the draws followed in the run of main() (see below)
DriverEventDraws ==
    {[description |-> 1, variation |-> RandomLeast, novelty |-> RandomHalf,
      ethical_impact |-> D(250000)],
     [description |-> 1, variation |-> RandomGreatest, novelty |-> D(900000),
      ethical_impact |-> D(750000)]}

\* the outcomes followed by the harness of the event source: the least and
\* the greatest outcome of random(), the two ends of both uniform ranges
EnvDraws ==
    {[description |-> 1, variation |-> RandomLeast, novelty |-> RandomHalf,
      ethical_impact |-> RandomLeast],
     [description |-> 3, variation |-> RandomGreatest, novelty |-> D(900000),
      ethical_impact |-> RandomGreatest]}

\* the events the draws make, by kind
EventsOf(draws) == [t \in EventTypes |-> {EventOf(t, d) : d \in draws}]
DriverEventsByKind == EventsOf(DriverEventDraws)
EnvEventsByKind == EventsOf(EnvDraws)

\* every event generate_event can return after `history`, of the events
\* the draws followed make
GeneratedEvents(history, by_kind) ==
    UNION {by_kind[t] : t \in select_event_type(history)}

(***************************************************************************)
(* The state after construction (main.py lines 19-32).  MemoryCore() loads *)
(* whatever an earlier run saved: records in the shape save_soul_journey   *)
(* writes them.                                                            *)
(***************************************************************************)
\* the significances and the intensities of the records, in micro units
PatternMixed == <<900000, 150000, 600000, 250000, 100000>>
PatternLow == <<150000, 100000, 180000, 50000>>
PatternSparse == <<900000, 150000, 100000, 120000, 50000, 180000, 110000, 130000,
                   140000, 160000, 170000>>
LoadedPatterns == {PatternMixed, PatternLow, PatternSparse}

LoadedTriggers == <<"connection", "reflection", "loss">>
LoadedIntensities == <<700000, 400000, 900000, 600000>>

Cyclic(s, i) == s[((i - 1) % Len(s)) + 1]

\* the i-th record of a saved file
LoadedMemory(pattern, i) ==
    [content |-> event_templates[Cyclic(LoadedTriggers, i)].descriptions[1],
     emotional_tags |-> EmotionToDict(generate_emotion(Cyclic(LoadedTriggers, i),
                                                       D(Cyclic(LoadedIntensities, i)))),
     significance |-> D(Cyclic(pattern, i)),
     timestamp |-> "ts",
     recall_count |-> i % 2]

LoadedHeap(pattern, n) == [i \in 1..n |-> LoadedMemory(pattern, i)]

\* str(uuid.uuid4()): the outcomes of the draw; the driver and the harnesses of
\* the other components follow one of them
SoulIds == {"uuid4-a", "uuid4-b"}
DriverSoulIds == {"uuid4-a"}

InitComponents(pattern, n) ==
    /\ storage_file = JsonFile("array", [i \in 1..n |-> LoadedMemory(pattern, i)])
    /\ mem_heap = LoadedHeap(pattern, n)
    /\ memories = [i \in 1..n |-> i]
    /\ current_emotions = <<>>
    /\ emotion_history = <<>>
    /\ soul_id \in DriverSoulIds
    /\ traits = initialize_traits
    /\ evolution_history = <<>>
    /\ rebirth_emotion_engine = "driver"
    /\ current_life_metrics = initialize_life_metrics
    /\ event_history = <<>>

\* ConsciousnessLayer.__init__
InitConsciousness ==
    /\ level = D(InitialLevel)
    /\ awareness_type = "base"
    /\ active_thoughts = <<>>
    /\ ethical_framework = InitialEthicalFramework
    /\ thought_history = <<>>

(***************************************************************************)
(* SoulConfig (soul_config.py)                                             *)
(***************************************************************************)
\* SoulConfig.__init__
SoulConfigInit ==
    [max_life_cycles |-> 5, min_cycle_duration |-> 100, max_cycle_duration |-> 1000,
     memory_carry_limit |-> 50, memory_significance_threshold |-> D(600000),
     memory_decay_rate |-> D(50000),
     emotion_base_intensity |-> D(500000), emotion_decay_multiplier |-> D(950000),
     emotion_inheritance_strength |-> D(300000),
     consciousness_growth_rate |-> D(10000), silent_bloom_threshold |-> D(850000),
     awareness_evolution_speed |-> D(20000),
     trait_mutation_rate |-> D(100000), trait_inheritance_strength |-> D(700000),
     trait_evolution_speed |-> D(50000),
     event_frequency |-> D(1000000), novelty_threshold |-> D(700000),
     ethical_impact_multiplier |-> D(1000000),
     enable_inner_dialogue |-> TRUE, enable_ethical_learning |-> TRUE,
     enable_memory_consolidation |-> TRUE]

\* the assignments of adjust_difficulty (lines 52-64) for the float `lvl`:
\* int() truncates towards zero
AdjustedConfig(cfg, lvl) ==
    [cfg EXCEPT !.max_life_cycles = FTrunc(FAdd(FInt(5), FMul(lvl, FInt(15)))),
                !.memory_carry_limit = FTrunc(FAdd(FInt(30), FMul(lvl, FInt(40)))),
                !.memory_significance_threshold =
                    FSub(D(700000), FMul(lvl, D(200000))),
                !.consciousness_growth_rate =
                    FAdd(D(5000), FMul(lvl, D(15000))),
                !.silent_bloom_threshold =
                    FSub(D(900000), FMul(lvl, D(100000))),
                !.trait_mutation_rate =
                    FAdd(D(50000), FMul(lvl, D(100000))),
                !.trait_evolution_speed =
                    FAdd(D(30000), FMul(lvl, D(40000)))]

\* adjust_difficulty: the range check is an assert statement (line 49), placed
\* before every assignment.  The interpreter executes it when __debug__ is
\* true; under python -O the statement is not compiled and every level goes
\* on to the assignments.
adjust_difficulty(cfg, lvl, asserting) ==
    IF asserting /\ ~(FLeq(FInt(0), lvl) /\ FLeq(lvl, FInt(1)))
    THEN [raised |-> "AssertionError", config |-> cfg]
    ELSE [raised |-> "none", config |-> AdjustedConfig(cfg, lvl)]

\* enable_advanced_features: each of the three flags takes the value the
\* dict holds for its key; other keys are ignored
enable_advanced_features(cfg, features) ==
    [cfg EXCEPT
        !.enable_inner_dialogue =
            IF "inner_dialogue" \in DOMAIN features THEN features["inner_dialogue"] ELSE @,
        !.enable_ethical_learning =
            IF "ethical_learning" \in DOMAIN features THEN features["ethical_learning"] ELSE @,
        !.enable_memory_consolidation =
            IF "memory_consolidation" \in DOMAIN features
            THEN features["memory_consolidation"] ELSE @]

\* get_config_summary
get_config_summary(cfg) ==
    [life_cycles |-> [max |-> cfg.max_life_cycles,
                      min_duration |-> cfg.min_cycle_duration,
                      max_duration |-> cfg.max_cycle_duration],
     memory |-> [carry_limit |-> cfg.memory_carry_limit,
                 significance_threshold |-> cfg.memory_significance_threshold,
                 decay_rate |-> cfg.memory_decay_rate],
     consciousness |-> [growth_rate |-> cfg.consciousness_growth_rate,
                        silent_bloom_threshold |-> cfg.silent_bloom_threshold,
                        evolution_speed |-> cfg.awareness_evolution_speed],
     personality |-> [mutation_rate |-> cfg.trait_mutation_rate,
                      inheritance_strength |-> cfg.trait_inheritance_strength,
                      evolution_speed |-> cfg.trait_evolution_speed],
     features |-> [inner_dialogue |-> cfg.enable_inner_dialogue,
                   ethical_learning |-> cfg.enable_ethical_learning,
                   memory_consolidation |-> cfg.enable_memory_consolidation]]

NoEvent == [type |-> "none"]
NoCall == [op |-> "none", args |-> <<>>, result |-> <<>>]

\* no driver is running: the components are used through their methods
InitIdle ==
    /\ pc = "idle"
    /\ current_cycle = 1
    /\ events_per_cycle = 0
    /\ cycle_events = 0
    /\ total_events = 0
    /\ event = NoEvent
    /\ emotional_response = 0
    /\ config = SoulConfigInit

\* the assert of soul_config.py is the only one of the program: elsewhere the
\* interpreter's mode makes no difference, and the default one is followed
InitMainIdle ==
    /\ InitIdle
    /\ debug = TRUE

InitHarness ==
    /\ calls = 0
    /\ last_call = NoCall

(***************************************************************************)
(* Effects of the operations on the components' state.                     *)
(***************************************************************************)
\* the Emotion object a current entry holds: the history's entry `ref`, or an
\* object the history does not hold (process_emotion has put it in the mapping
\* and was interrupted before appending it)
Held(hist, c) == IF "ref" \in DOMAIN c THEN hist[c.ref] ELSE c.emotion

\* EmotionEngine.get_emotional_state of the engine the RebirthEngine holds
RebirthEngineEmotionalState ==
    IF rebirth_emotion_engine = "driver"
    THEN [t \in EmotionTypes(current_emotions) |->
             LET i == CHOOSE j \in 1..Len(current_emotions) : current_emotions[j].type = t
             IN  Held(emotion_history, current_emotions[i]).intensity]
    ELSE <<>>

UpdatePeaks(peaks, emotional_state) ==
    [t \in DOMAIN peaks \cup DOMAIN emotional_state |->
        IF t \notin DOMAIN peaks THEN emotional_state[t]
        ELSE IF t \notin DOMAIN emotional_state THEN peaks[t]
        ELSE FMax(emotional_state[t], peaks[t])]

should_trigger_rebirth ==
    /\ current_life_metrics' =
          [current_life_metrics EXCEPT
              !.consciousness_level = level,
              !.emotional_peaks = UpdatePeaks(@, RebirthEngineEmotionalState)]
    /\ UNCHANGED <<memVars, emoVars, consVars, persVars, rebirth_emotion_engine, envVars>>

\* (mutation of RebirthPersonality: the LifeMetrics are reset before evolve_traits)
RebirthPersonalityResetFirst(tr, life_metrics, draw) ==
    Let(evolve_traits(tr, initialize_life_metrics, draw),
        LAMBDA p : [traits |-> p.traits, record |-> p.record,
                    life_metrics |-> initialize_life_metrics])

\* the personality part of process_rebirth: evolve_traits on the current
\* LifeMetrics, then a fresh LifeMetrics
RebirthPersonality(tr, life_metrics, draw) ==
    Let(evolve_traits(tr, life_metrics, draw),
        LAMBDA p : [traits |-> p.traits, record |-> p.record,
                    life_metrics |-> initialize_life_metrics])

\* adjust_consciousness(self.rebirth_threshold * 0.5)
RetainedShare == 500000

process_rebirth(draw) ==
    \E m \in {RebirthMemories(mem_heap, memories)},
       p \in {RebirthPersonality(traits, current_life_metrics, draw)} :
        /\ mem_heap' = m.heap
        /\ memories' = m.list
        /\ rebirth_emotion_engine' = "fresh"
        /\ traits' = p.traits
        /\ evolution_history' = Append(evolution_history, p.record)
        /\ current_life_metrics' = p.life_metrics
        /\ level' = adjust_consciousness(FMul(D(rebirth_threshold), D(RetainedShare)))
        /\ awareness_type' = AwarenessOf(level')
        /\ UNCHANGED <<emoVars, active_thoughts, ethical_framework, thought_history, envVars,
                       soul_id, storage_file>>

\* (mutation of process_experience: the awareness type is not refreshed)
process_experience_stale(ev, response) ==
    /\ level' = NextLevel(level, calculate_consciousness_impact(ev, response))
    /\ \E new_thoughts \in {generate_thoughts(level')} :
          /\ active_thoughts' = active_thoughts \o new_thoughts
          /\ thought_history' = thought_history \o new_thoughts
    /\ ethical_framework' = evolve_ethical_framework(ethical_framework, ev)
    /\ UNCHANGED awareness_type

\* ConsciousnessLayer.process_experience
process_experience(ev, response) ==
    /\ level' = NextLevel(level, calculate_consciousness_impact(ev, response))
    /\ \E new_thoughts \in {generate_thoughts(level')} :
          /\ active_thoughts' = active_thoughts \o new_thoughts
          /\ thought_history' = thought_history \o new_thoughts
    /\ ethical_framework' = evolve_ethical_framework(ethical_framework, ev)
    /\ awareness_type' = AwarenessOf(level')

(***************************************************************************)
(* The run of main() (main.py lines 13-101), one action per statement of   *)
(* the loop.  `emotional_response` is the Emotion object process_emotion   *)
(* returned, as its index in emotion_history.                              *)
(***************************************************************************)
\* the kinds random.choice / random.choices return in the run followed: one
\* per emotion name the pipeline can yield, the four base significances
DriverEventTypes == {"connection", "loss", "growth", "discovery"}

\* the events generate_event returns in the run followed
DriverEvents(history) ==
    {ev \in GeneratedEvents(history, DriverEventsByKind) : ev.type \in DriverEventTypes}

DriverMutationDraws ==
    {NoMutation, [mutate |-> TRUE, trait |-> "empathy", amount |-> mutation(D(900000))]}

NoHarness == UNCHANGED <<calls, last_call>>

\* lines 49-54: the loop test, cycle_events = 0 and the randint draw
CycleStart ==
    /\ pc = "cycle_start"
    /\ IF current_cycle <= max_life_cycles
       THEN /\ cycle_events' = 0
            /\ \E n \in min_cycle_duration..Min(min_cycle_duration * 2, max_cycle_duration) :
                  events_per_cycle' = n
            /\ pc' = IF events_per_cycle' > 0 THEN "generate_event" ELSE "process_rebirth"
       ELSE /\ pc' = "finally"
            /\ UNCHANGED <<cycle_events, events_per_cycle>>
    /\ UNCHANGED <<current_cycle, total_events, event, emotional_response>>
    /\ UNCHANGED <<memVars, emoVars, consVars, persVars, rebVars, envVars>>
    /\ UNCHANGED <<config, debug>>
    /\ NoHarness

\* line 61: event = environment_simulator.generate_event()
GenerateEvent ==
    /\ pc = "generate_event"
    /\ \E ev \in DriverEvents(event_history) :
          /\ event' = ev
          /\ event_history' = record_event(event_history, ev)
    /\ pc' = "process_emotion"
    /\ UNCHANGED <<current_cycle, events_per_cycle, cycle_events, total_events, emotional_response>>
    /\ UNCHANGED <<memVars, emoVars, consVars, persVars, rebVars>>
    /\ UNCHANGED <<config, debug>>
    /\ NoHarness

\* line 62: emotional_response = emotion_engine.process_emotion(event)
ProcessEmotion ==
    /\ pc = "process_emotion"
    /\ \E r \in {process_emotion(current_emotions, emotion_history, event)} :
          /\ current_emotions' = r.current
          /\ emotion_history' = r.history
          /\ emotional_response' = r.emotion
    /\ pc' = "store_experience"
    /\ UNCHANGED <<current_cycle, events_per_cycle, cycle_events, total_events, event>>
    /\ UNCHANGED <<memVars, consVars, persVars, rebVars, envVars>>
    /\ UNCHANGED <<config, debug>>
    /\ NoHarness

\* line 63: memory_core.store_experience(event, emotional_response)
StoreExperience ==
    /\ pc = "store_experience"
    /\ \E r \in {store_experience(mem_heap, memories, event, emotion_history[emotional_response])} :
          /\ mem_heap' = r.heap
          /\ memories' = r.list
    /\ UNCHANGED storage_file
    /\ pc' = "process_experience"
    /\ UNCHANGED <<current_cycle, events_per_cycle, cycle_events, total_events, event,
                   emotional_response>>
    /\ UNCHANGED <<emoVars, consVars, persVars, rebVars, envVars>>
    /\ UNCHANGED <<config, debug>>
    /\ NoHarness

\* the same statement in a loop body that ends there: the next tick (or the
\* end of the cycle) follows without the decay pass and the bloom check
ProcessExperienceSkipDecay ==
    /\ pc = "process_experience"
    /\ process_experience(event, EmotionToDict(emotion_history[emotional_response]))
    /\ total_events' = total_events + 1
    /\ cycle_events' = cycle_events + 1
    /\ pc' = IF cycle_events' < events_per_cycle THEN "generate_event" ELSE "process_rebirth"
    /\ UNCHANGED <<current_cycle, events_per_cycle, event, emotional_response>>
    /\ UNCHANGED <<memVars, emoVars, persVars, rebVars, envVars>>
    /\ UNCHANGED <<config, debug>>
    /\ NoHarness

\* line 66: consciousness_layer.process_experience(event, emotional_response.to_dict())
ProcessExperience ==
    /\ pc = "process_experience"
    /\ process_experience(event, EmotionToDict(emotion_history[emotional_response]))
    /\ pc' = "decay_emotions"
    /\ UNCHANGED <<current_cycle, events_per_cycle, cycle_events, total_events, event,
                   emotional_response>>
    /\ UNCHANGED <<memVars, emoVars, persVars, rebVars, envVars>>
    /\ UNCHANGED <<config, debug>>
    /\ NoHarness

\* lines 67-71: emotion_engine.decay_emotions(), the two counters and sleep(0.01)
DecayEmotions ==
    /\ pc = "decay_emotions"
    /\ \E r \in {decay_emotions(current_emotions, emotion_history)} :
          /\ current_emotions' = r.current
          /\ emotion_history' = r.history
    /\ total_events' = total_events + 1
    /\ cycle_events' = cycle_events + 1
    /\ pc' = "check_silent_bloom"
    /\ UNCHANGED <<current_cycle, events_per_cycle, event, emotional_response>>
    /\ UNCHANGED <<memVars, consVars, persVars, rebVars, envVars>>
    /\ UNCHANGED <<config, debug>>
    /\ NoHarness

\* lines 74-77 and the head of the for loop
CheckSilentBloom ==
    /\ pc = "check_silent_bloom"
    /\ pc' = IF check_silent_bloom_conditions(level, thought_history, ethical_framework)
             THEN "finally"
             ELSE IF cycle_events < events_per_cycle THEN "generate_event"
             ELSE "process_rebirth"
    /\ UNCHANGED <<current_cycle, events_per_cycle, cycle_events, total_events, event,
                   emotional_response>>
    /\ UNCHANGED <<memVars, emoVars, consVars, persVars, rebVars, envVars>>
    /\ UNCHANGED <<config, debug>>
    /\ NoHarness

\* lines 84-95: the summary, rebirth_engine.process_rebirth() and the cycle count
ProcessRebirth(draw) ==
    /\ pc = "process_rebirth"
    /\ process_rebirth(draw)
    /\ current_cycle' = current_cycle + 1
    /\ pc' = IF current_cycle' > max_life_cycles THEN "finally" ELSE "cycle_start"
    /\ UNCHANGED <<events_per_cycle, cycle_events, total_events, event, emotional_response>>
    /\ UNCHANGED <<config, debug>>
    /\ NoHarness

\* the statements inside the try block of main
TryStatements == {"cycle_start", "generate_event", "process_emotion", "store_experience",
                  "process_experience", "decay_emotions", "check_silent_bloom",
                  "process_rebirth"}

(***************************************************************************)
(* A statement of the try block as the sequence of the states it passes    *)
(* through: the state it starts in, then the state after each of its       *)
(* writes, in the order the code makes them.  The last state is the one    *)
(* the statement's action leads to.                                        *)
(***************************************************************************)
\* the part of the state the statements of the try block write
Here ==
    [mem_heap |-> mem_heap, memories |-> memories,
     current_emotions |-> current_emotions, emotion_history |-> emotion_history,
     level |-> level, awareness_type |-> awareness_type,
     active_thoughts |-> active_thoughts, ethical_framework |-> ethical_framework,
     thought_history |-> thought_history,
     traits |-> traits, evolution_history |-> evolution_history,
     rebirth_emotion_engine |-> rebirth_emotion_engine,
     current_life_metrics |-> current_life_metrics,
     event_history |-> event_history,
     current_cycle |-> current_cycle, events_per_cycle |-> events_per_cycle,
     cycle_events |-> cycle_events, total_events |-> total_events, event |-> event,
     emotional_response |-> emotional_response]

\* the trace with one more write
Then(trace, Write(_)) == Let(trace, LAMBDA t : Append(t, Write(t[Len(t)])))

\* the trace with one more write per item of a list, in order
ThenEach(trace, items, Write(_, _)) ==
    LET after[i \in 0..Len(items)] ==
            IF i = 0 THEN trace
            ELSE Let(after[i - 1], LAMBDA t : Append(t, Write(t[Len(t)], items[i])))
    IN  after[Len(items)]

\* lines 50-54
CycleStartTraces ==
    IF current_cycle <= max_life_cycles
    THEN {Then(Then(<<Here>>, LAMBDA h : [h EXCEPT !.cycle_events = 0]),
               LAMBDA h : [h EXCEPT !.events_per_cycle = n]) :
             n \in min_cycle_duration..Min(min_cycle_duration * 2, max_cycle_duration)}
    ELSE {<<Here>>}

\* generate_event: the event is appended to the history, then returned
GenerateEventTraces ==
    {Then(Then(<<Here>>, LAMBDA h : [h EXCEPT !.event_history = record_event(@, ev)]),
          LAMBDA h : [h EXCEPT !.event = ev]) :
        ev \in DriverEvents(event_history)}

\* process_emotion: the new object goes into the mapping, then to the history,
\* then to the driver's local
ProcessEmotionTraces ==
    {Then(Then(Then(<<Here>>,
                    LAMBDA h : [h EXCEPT !.current_emotions =
                                             DictSetObject(@, r.history[r.emotion])]),
               LAMBDA h : [h EXCEPT !.current_emotions = r.current,
                                    !.emotion_history = r.history]),
          LAMBDA h : [h EXCEPT !.emotional_response = r.emotion]) :
        r \in {process_emotion(current_emotions, emotion_history, event)}}

\* store_experience: one append, or none
StoreExperienceTraces ==
    {Then(<<Here>>, LAMBDA h : [h EXCEPT !.mem_heap = r.heap, !.memories = r.list]) :
        r \in {store_experience(mem_heap, memories, event, emotion_history[emotional_response])}}

\* the `+=` statements of _evolve_ethical_framework, as <<dimension, amount>>
FrameworkBumps(ev) ==
    IF "ethical_impact" \notin DOMAIN ev THEN <<>>
    ELSE IF FLess(FInt(0), ev.ethical_impact)
    THEN <<<<"empathy", D(EmpathyBump)>>, <<"harmony", D(HarmonyBump)>>>>
    ELSE <<<<"self_preservation", D(SelfPreservationBump)>>>>

\* process_experience: the level; the thought history, one thought at a time
\* (extend consumes a generator); the active thoughts; the framework, one `+=`
\* at a time and then the normalised dict; the awareness type
ProcessExperienceTrace(ev, response, seen) ==
    Then(Let(ThenEach(Then(ThenEach(Then(<<Here>>, LAMBDA h : [h EXCEPT !.level = seen]),
                                    generate_thoughts(seen),
                                    LAMBDA h, thought :
                                        [h EXCEPT !.thought_history = Append(@, thought)]),
                           LAMBDA h : [h EXCEPT !.active_thoughts =
                                                    @ \o generate_thoughts(seen)]),
                      FrameworkBumps(ev),
                      LAMBDA h, delta : [h EXCEPT !.ethical_framework[delta[1]] =
                                                      FAdd(@, delta[2])]),
             LAMBDA t : IF "ethical_impact" \in DOMAIN ev
                        THEN Then(t, LAMBDA h : [h EXCEPT !.ethical_framework = Normalize(@)])
                        ELSE t),
         LAMBDA h : [h EXCEPT !.awareness_type = AwarenessOf(seen)])

ProcessExperienceTraces ==
    {ProcessExperienceTrace(event, response, seen) :
        response \in {EmotionToDict(emotion_history[emotional_response])},
        seen \in {NextLevel(level,
                     calculate_consciousness_impact(
                         event, EmotionToDict(emotion_history[emotional_response])))}}

\* decay_emotions and the counters: the surviving emotions are written in the
\* order of the mapping, then the others are deleted from it in that order
DecayEmotionsTraces ==
    {Then(Then(ThenEach(ThenEach(<<Here>>,
                                 SelectSeq(current_emotions,
                                           LAMBDA c : Persists(emotion_history[c.ref])),
                                 LAMBDA h, c :
                                     [h EXCEPT !.emotion_history[c.ref].intensity =
                                                   DecayedIntensity(emotion_history[c.ref])]),
                        SelectSeq(current_emotions,
                                  LAMBDA c : ~Persists(emotion_history[c.ref])),
                        LAMBDA h, c : [h EXCEPT !.current_emotions =
                                           SelectSeq(@, LAMBDA x : x.type # c.type)]),
               LAMBDA h : [h EXCEPT !.total_events = @ + 1]),
          LAMBDA h : [h EXCEPT !.cycle_events = @ + 1])}

\* the _adjust_trait calls of evolve_traits, in order, as <<trait, amount>>
TraitAdjustments(tr, life_metrics, draw) ==
    LET Hundredths(list) == [i \in 1..Len(list) |-> <<list[i][1], D(list[i][2] * (One \div 100))>>]
        peaks == life_metrics.emotional_peaks
    IN  Hundredths((IF "joy" \in DOMAIN peaks
                    THEN <<<<"creativity", 5>>, <<"harmony", 3>>>> ELSE <<>>)
                   \o (IF "fear" \in DOMAIN peaks
                       THEN <<<<"resilience", 4>>, <<"adaptability", 5>>>> ELSE <<>>)
                   \o (IF "love" \in DOMAIN peaks
                       THEN <<<<"empathy", 6>>, <<"harmony", 4>>>> ELSE <<>>)
                   \o (IF "curiosity" \in DOMAIN peaks
                       THEN <<<<"curiosity", 5>>, <<"creativity", 3>>>> ELSE <<>>)
                   \o (IF FLess(D(PositiveRatioBound),
                                positive_ratio(life_metrics.ethical_choices))
                       THEN <<<<"empathy", 5>>, <<"harmony", 4>>>>
                       ELSE <<<<"resilience", 3>>, <<"adaptability", 5>>>>))
        \o [i \in 1..Len(TraitOrder) |->
               <<TraitOrder[i],
                 FMul(tr[TraitOrder[i]].evolution_rate,
                      FMul(life_metrics.consciousness_level, D(ConsciousnessFactor)))>>]
        \o (IF draw.mutate THEN <<<<draw.trait, draw.amount>>>> ELSE <<>>)

\* a Memory object lives as long as the store holds it
Collect(h) == [h EXCEPT !.mem_heap = [id \in Range(h.memories) |-> h.mem_heap[id]]]

\* the writes of inherit_memories, per inherited memory: scale, then append
InheritWrites(selected) ==
    [i \in 1..(2 * Len(selected)) |->
        [write |-> IF i % 2 = 1 THEN "scale" ELSE "append", id |-> selected[(i + 1) \div 2]]]

\* process_rebirth and the cycle count (lines 88-89): the pruned list, the
\* inherited memories one by one, the new emotion engine, the trait
\* adjustments one by one and the evolution record, the new LifeMetrics, the
\* level, the awareness type, the cycle count
ProcessRebirthTrace(draw) ==
    Let(Then(Then(Then(Then(Then(ThenEach(Then(ThenEach(Then(<<Here>>,
            LAMBDA h : [h EXCEPT !.memories =
                            forget_old_memories(mem_heap, memories, ForgetThresholdDefault)]),
            InheritWrites(select_inherited_memories(mem_heap, memories)),
            LAMBDA h, w :
                IF w.write = "scale"
                THEN [h EXCEPT !.mem_heap[w.id].significance =
                                   FMul(@, D(InheritanceStrengthDefault))]
                ELSE [h EXCEPT !.memories = Append(@, w.id)]),
            LAMBDA h : [h EXCEPT !.rebirth_emotion_engine = "fresh"]),
            TraitAdjustments(traits, current_life_metrics, draw),
            LAMBDA h, a : [h EXCEPT !.traits = adjust_trait(@, a[1], a[2])]),
            LAMBDA h : [h EXCEPT !.evolution_history =
                            Append(@, [pre_evolution |-> TraitValues(traits),
                                       post_evolution |-> TraitValues(h.traits),
                                       life_metrics |-> current_life_metrics])]),
            LAMBDA h : [h EXCEPT !.current_life_metrics = initialize_life_metrics]),
            LAMBDA h : [h EXCEPT !.level =
                            adjust_consciousness(
                                FMul(D(rebirth_threshold), D(RetainedShare)))]),
            LAMBDA h : [h EXCEPT !.awareness_type = AwarenessOf(h.level)]),
            LAMBDA h : [h EXCEPT !.current_cycle = @ + 1]),
        LAMBDA t : [i \in 1..Len(t) |-> Collect(t[i])])

ProcessRebirthTraces == {ProcessRebirthTrace(draw) : draw \in DriverMutationDraws}

\* the traces of the statement at pc
StatementTraces ==
    CASE pc = "cycle_start" -> CycleStartTraces
      [] pc = "generate_event" -> GenerateEventTraces
      [] pc = "process_emotion" -> ProcessEmotionTraces
      [] pc = "store_experience" -> StoreExperienceTraces
      [] pc = "process_experience" -> ProcessExperienceTraces
      [] pc = "decay_emotions" -> DecayEmotionsTraces
      [] pc = "process_rebirth" -> ProcessRebirthTraces
      [] OTHER -> {<<Here>>}

\* the state is the one of the record h
Becomes(h) ==
    /\ mem_heap' = h.mem_heap
    /\ memories' = h.memories
    /\ current_emotions' = h.current_emotions
    /\ emotion_history' = h.emotion_history
    /\ level' = h.level
    /\ awareness_type' = h.awareness_type
    /\ active_thoughts' = h.active_thoughts
    /\ ethical_framework' = h.ethical_framework
    /\ thought_history' = h.thought_history
    /\ traits' = h.traits
    /\ evolution_history' = h.evolution_history
    /\ rebirth_emotion_engine' = h.rebirth_emotion_engine
    /\ current_life_metrics' = h.current_life_metrics
    /\ event_history' = h.event_history
    /\ current_cycle' = h.current_cycle
    /\ events_per_cycle' = h.events_per_cycle
    /\ cycle_events' = h.cycle_events
    /\ total_events' = h.total_events
    /\ event' = h.event
    /\ emotional_response' = h.emotional_response

\* lines 97-98: except KeyboardInterrupt.  A SIGINT ends the loop where it
\* arrives: before the statement at pc, between two of its writes, or after
\* the last one (in the sleep of line 71, for one); control passes to the
\* finally block with the state as it is then.
KeyboardInterrupt ==
    /\ pc \in TryStatements
    /\ \E h \in UNION {Range(trace) : trace \in StatementTraces} : Becomes(h)
    /\ pc' = "finally"
    /\ UNCHANGED <<storage_file, soul_id, config, debug>>
    /\ NoHarness

\* every statement that runs to its end leaves the last state of one of its traces
StatementsFollowTraces ==
    [][(pc \in TryStatements /\ pc' # "finally") =>
          \E trace \in StatementTraces : Here' = trace[Len(trace)]]_vars

\* lines 99-101: memory_core.save_soul_journey() and the closing print
Finally ==
    /\ pc = "finally"
    /\ pc' = "done"
    /\ storage_file' = save_soul_journey(mem_heap, memories)
    /\ UNCHANGED <<current_cycle, events_per_cycle, cycle_events, total_events, event,
                   emotional_response>>
    /\ UNCHANGED <<mem_heap, memories, emoVars, consVars, persVars, rebVars, envVars>>
    /\ UNCHANGED <<config, debug>>
    /\ NoHarness

\* what a KeyboardInterrupt raised inside the finally block leaves of the
\* file: the old document (raised before write_text opens the file, memory_core.py
\* line 137), a file opened for writing whose text has not been written in
\* full (no JSON document), or the new document (raised in the print of line 101)
InterruptedSaves ==
    {storage_file, UnparseableFile, save_soul_journey(mem_heap, memories)}

\* a KeyboardInterrupt inside the finally block: no handler is left, the
\* exception leaves main()
FinallyInterrupted ==
    /\ pc = "finally"
    /\ pc' = "raised"
    /\ storage_file' \in InterruptedSaves
    /\ UNCHANGED <<current_cycle, events_per_cycle, cycle_events, total_events, event,
                   emotional_response>>
    /\ UNCHANGED <<mem_heap, memories, emoVars, consVars, persVars, rebVars, envVars>>
    /\ UNCHANGED <<config, debug>>
    /\ NoHarness

InitMain ==
    /\ pc = "cycle_start"
    /\ current_cycle = 1
    /\ events_per_cycle = 0
    /\ cycle_events = 0
    /\ total_events = 0
    /\ event = NoEvent
    /\ emotional_response = 0
    /\ config = SoulConfigInit
    /\ debug = TRUE

Init ==
    /\ \E n \in {0, Len(PatternMixed)} : InitComponents(PatternMixed, n)
    /\ InitConsciousness
    /\ InitMain
    /\ InitHarness

Next ==
    \/ CycleStart
    \/ GenerateEvent
    \/ ProcessEmotion
    \/ StoreExperience
    \/ ProcessExperience
    \/ DecayEmotions
    \/ CheckSilentBloom
    \/ \E draw \in DriverMutationDraws : ProcessRebirth(draw)
    \/ KeyboardInterrupt
    \/ Finally
    \/ FinallyInterrupted

Spec == Init /\ [][Next]_vars

(***************************************************************************)
(* API harness of the memory store: any sequence of calls on a loaded      *)
(* MemoryCore, with the RebirthEngine built on it.                         *)
(***************************************************************************)
HarnessSignificances == {100000, 280001, 900000}
HarnessIntensities == {300000, 500000}
HarnessTriggers == {"connection", "growth"}
HarnessEvents ==
    {MakeEvent(t, 1, D(0), RandomHalf, D(0)) : t \in HarnessTriggers}
HarnessStoreEvents ==
    {[e EXCEPT !.significance = D(sg)] : e \in HarnessEvents, sg \in HarnessSignificances}
HarnessEmotions ==
    {generate_emotion(t, D(i)) : t \in HarnessTriggers, i \in HarnessIntensities}
RecallNames == {"love", "wonder", "intensity", "type"}
RecallThresholds == {500000, 700000}
InheritLimits == {1, 2}

CanCall == calls < MaxCalls

Note(op, args, result) ==
    /\ calls' = calls + 1
    /\ last_call' = [op |-> op, args |-> args, result |-> result]

OnlyMemory == UNCHANGED <<emoVars, consVars, persVars, rebVars, envVars, mainVars>>

MemStore(ev, response) ==
    /\ CanCall
    /\ \E r \in {store_experience(mem_heap, memories, ev, response)} :
        /\ mem_heap' = r.heap
        /\ memories' = r.list
        /\ Note("store", [ev |-> ev, response |-> response], <<>>)
        /\ UNCHANGED storage_file
        /\ OnlyMemory

MemRecall(emotion, threshold) ==
    /\ CanCall
    /\ \E r \in {recall_by_emotion(mem_heap, memories, emotion, threshold)} :
        /\ mem_heap' = r.heap
        /\ UNCHANGED memories
        /\ Note("recall", [emotion |-> emotion, threshold |-> threshold],
                [raised |-> r.raised, returned |-> r.result])
        /\ UNCHANGED storage_file
        /\ OnlyMemory

MemForget ==
    /\ CanCall
    /\ memories' = forget_old_memories(mem_heap, memories, ForgetThresholdDefault)
    /\ mem_heap' = [id \in Range(memories') |-> mem_heap[id]]
    /\ Note("forget", <<>>, <<>>)
    /\ UNCHANGED storage_file
    /\ OnlyMemory

\* inherit_memories(get_significant_memories(limit))
MemInherit(limit) ==
    /\ CanCall
    /\ \E past \in {get_significant_memories(mem_heap, memories, limit)} :
      \E r \in {inherit_memories(mem_heap, memories, past, InheritanceStrengthDefault)} :
        /\ mem_heap' = r.heap
        /\ memories' = r.list
        /\ Note("inherit", [past |-> past], <<>>)
        /\ UNCHANGED storage_file
        /\ OnlyMemory

\* save_soul_journey(), then a new MemoryCore over the same path; the result is
\* the new store's collection, record by record
MemSaveReload ==
    /\ CanCall
    /\ \E file \in {save_soul_journey(mem_heap, memories)} :
       \E new \in {MemoryCoreInit(file)} :
          /\ storage_file' = new.file
          /\ Note("save_reload", <<>>,
                  [raised |-> new.raised,
                   returned |-> [i \in 1..Len(new.list) |-> new.heap[new.list[i]]]])
    /\ UNCHANGED <<mem_heap, memories>>
    /\ OnlyMemory

CallShouldTriggerRebirth ==
    /\ CanCall
    /\ should_trigger_rebirth
    /\ Note("should_trigger_rebirth", <<>>, <<>>)
    /\ UNCHANGED mainVars

CallProcessRebirth(draw) ==
    /\ CanCall
    /\ process_rebirth(draw)
    /\ \E selected \in {select_inherited_memories(mem_heap, memories)} :
          Note("process_rebirth",
               [selected |-> selected,
                significances |-> [i \in 1..Len(selected) |-> mem_heap[selected[i]].significance],
                total |-> Len(memories)],
               <<>>)
    /\ UNCHANGED mainVars

InitMem ==
    /\ \E pattern \in LoadedPatterns, n \in 0..MaxLoaded : InitComponents(pattern, n)
    /\ InitConsciousness
    /\ InitMainIdle
    /\ InitHarness

NextMem ==
    \/ \E ev \in HarnessStoreEvents, response \in HarnessEmotions : MemStore(ev, response)
    \/ \E emotion \in RecallNames, threshold \in RecallThresholds : MemRecall(emotion, threshold)
    \/ MemForget
    \/ \E limit \in InheritLimits : MemInherit(limit)
    \/ MemSaveReload
    \/ CallShouldTriggerRebirth
    \/ \E draw \in MutationDraws : CallProcessRebirth(draw)

SpecMem == InitMem /\ [][NextMem]_vars

(***************************************************************************)
(* Claims about the memory store (checked under SpecMem).                  *)
(***************************************************************************)
IsCall(op) == last_call.op = op

\* comparisons of a float x with the float of t micro units
Below(x, t) == FLess(x, D(t))
AtMost(x, t) == FLeq(x, D(t))
AtLeast(x, t) == FLeq(D(t), x)
Above(x, t) == FLess(D(t), x)

\* 2^-50: four units in the last place of a float in [1, 2)
Rounding == Dbl(0, -102, P24, 0)

FAbs(a) == [a EXCEPT !.s = 0]

\* a and b are equal up to the rounding of a few float operations:
\* |a - b| <= 2^-50 * max(|a|, |b|)
Near(a, b) == FLeq(FAbs(FSub(a, b)), FMul(Rounding, FMax(FAbs(a), FAbs(b))))

\* C1: a memory that is selected for inheritance although its significance is
\* below the prune threshold is in the store after process_rebirth(): the
\* inherited set is taken from the store as it was before the prune and is
\* appended after the memories the prune kept.
C1_RebirthOrdering ==
    [][last_call'.op = "process_rebirth" =>
          LET selected == select_inherited_memories(mem_heap, memories)
              kept == forget_old_memories(mem_heap, memories, ForgetThresholdDefault)
          IN  /\ \A i \in 1..Len(selected) :
                    Below(mem_heap[selected[i]].significance, ForgetThresholdDefault)
                        => selected[i] \in Range(memories')
              /\ memories' = kept \o selected]_vars

\* a rebirth has inherited a memory whose significance was below the prune threshold
C1_Witness ==
    /\ IsCall("process_rebirth")
    /\ \E i \in 1..Len(last_call.args.selected) :
          /\ Below(last_call.args.significances[i], ForgetThresholdDefault)
          /\ last_call.args.selected[i] \in Range(memories)

\* C3: at rebirth the number of memories selected for inheritance is
\* floor(total * 0.3), total being the number of memories in the store.
C3_InheritanceCountOfWholeStore ==
    IsCall("process_rebirth") =>
        Len(last_call.args.selected) = (last_call.args.total * 3) \div 10

\* C4: store(ev, emotion) appends exactly one Memory if and only if
\* (ev.significance + emotion.intensity) / 2 >= 0.3, equality included, and
\* otherwise leaves the store as it was.
C4_StoreThreshold ==
    [][last_call'.op = "store" =>
          LET a == last_call'.args
          IN  IF AtLeast(FDiv(FAdd(a.ev.significance, a.response.intensity), FInt(2)),
                         memory_threshold)
              THEN /\ Len(memories') = Len(memories) + 1
                   /\ SubSeq(memories', 1, Len(memories)) = memories
                   /\ memories'[Len(memories')] \notin DOMAIN mem_heap
                   /\ \A id \in DOMAIN mem_heap : mem_heap'[id] = mem_heap[id]
                   /\ mem_heap'[memories'[Len(memories')]].content = a.ev.description
              ELSE /\ memories' = memories
                   /\ mem_heap' = mem_heap]_vars

\* a store() whose averaged significance is exactly the threshold has appended a memory
C4_Witness ==
    /\ IsCall("store")
    /\ FDiv(FAdd(last_call.args.ev.significance, last_call.args.response.intensity),
            FInt(2)) = D(memory_threshold)
    /\ memories # <<>>
    /\ mem_heap[memories[Len(memories)]].significance = D(memory_threshold)
    /\ mem_heap[memories[Len(memories)]].recall_count = 0

\* C5: recall(emotion_name, threshold) returns exactly the memories whose
\* emotional-tag snapshot records the emotion emotion_name with intensity >=
\* threshold (so a memory stored with emotion E at intensity i is returned by
\* recall(E, t) for t <= i).
C5_RecallByEmotionName ==
    (IsCall("recall") /\ last_call.args.emotion \in base_emotions) =>
        Range(last_call.result.returned) =
            {id \in Range(memories) :
                /\ mem_heap[id].emotional_tags.type = last_call.args.emotion
                /\ AtLeast(mem_heap[id].emotional_tags.intensity, last_call.args.threshold)}

\* C6: one recall() increases recall_count by exactly 1 for each memory it
\* returns and leaves every other memory's recall_count unchanged.
C6_RecallCountsOnce ==
    [][last_call'.op = "recall" =>
          \A id \in DOMAIN mem_heap :
              mem_heap'[id].recall_count =
                  mem_heap[id].recall_count
                  + (IF id \in Range(last_call'.result.returned) THEN 1 ELSE 0)]_vars

(***************************************************************************)
(* API harness of the consciousness layer: update / adjust / check_bloom   *)
(* on a freshly constructed ConsciousnessLayer.                            *)
(***************************************************************************)
MaxConsCalls == 3

ConsSignificances == {400000, 900000}
\* events as the event source shapes them, and one that carries no ethical_impact
ConsEvents ==
    LET full == {[MakeEvent("reflection", 1, D(0), n, ethical_impact_of(x))
                     EXCEPT !.significance = D(sg)] :
                    n \in NoveltyDraws, x \in EthicalDraws, sg \in ConsSignificances}
    IN  full \cup {[type |-> e.type, description |-> e.description,
                    significance |-> e.significance, is_novel |-> e.is_novel] :
                       e \in {f \in full : FEq(f.ethical_impact, FInt(0)) /\ ~f.is_novel}}
AdjustLevels == {0, 400000, One, One + 500000}

OnlyConsciousness == UNCHANGED <<memVars, emoVars, persVars, rebVars, envVars, mainVars>>

\* update(ev, emotion): the emotion snapshot is the one process_emotion yields for ev
ConsUpdate(ev) ==
    /\ calls < MaxConsCalls
    /\ \E response \in {EmotionToDict(generate_emotion(ev.type, calculate_intensity(ev)))} :
          /\ process_experience(ev, response)
          /\ Note("update", [ev |-> ev, response |-> response], <<>>)
    /\ OnlyConsciousness

ConsAdjust(new_level) ==
    /\ calls < MaxConsCalls
    /\ level' = adjust_consciousness(D(new_level))
    /\ awareness_type' = AwarenessOf(level')
    /\ UNCHANGED <<active_thoughts, ethical_framework, thought_history>>
    /\ Note("adjust", [new_level |-> new_level], <<>>)
    /\ OnlyConsciousness

ConsCheckBloom ==
    /\ calls < MaxConsCalls
    /\ Note("check_bloom", <<>>,
            check_silent_bloom_conditions(level, thought_history, ethical_framework))
    /\ UNCHANGED consVars
    /\ OnlyConsciousness

\* process_rebirth() of a RebirthEngine built on the layer
ConsRebirth(draw) ==
    /\ calls < MaxConsCalls
    /\ process_rebirth(draw)
    /\ Note("process_rebirth", [level_before |-> level], <<>>)
    /\ UNCHANGED mainVars

InitCons ==
    /\ InitComponents(PatternMixed, 0)
    /\ InitConsciousness
    /\ InitMainIdle
    /\ InitHarness

NextCons ==
    \/ \E ev \in ConsEvents : ConsUpdate(ev)
    \/ \E new_level \in AdjustLevels : ConsAdjust(new_level)
    \/ ConsCheckBloom
    \/ \E draw \in DriverMutationDraws : ConsRebirth(draw)

SpecCons == InitCons /\ [][NextCons]_vars

(***************************************************************************)
(* check_silent_bloom_conditions on constructed consciousness states.      *)
(***************************************************************************)
BloomLevels == {940000, 950000, 960000}
BloomLengths == {19, 49, 50, 55}
BloomRecentExistential == {0, 9, 10, 20}
BloomEmpathy == {300000, 310000, 590000, 600000}
BloomHarmony == {250000, 260000, 490000, 500000}

ExistentialPool == <<"Who am I beyond these experiences?", "What is my purpose?",
                     "Is CONSCIOUSNESS an illusion?">>
OrdinaryPool == <<"Why do these memories feel both familiar and distant?",
                  "These feelings seem meaningful...", "This experience affects me...">>

\* n thoughts; of the last RecentThoughtWindow, the first k are existential; the
\* older ones are all existential or all ordinary
BuiltHistory(n, k, old_existential) ==
    [i \in 1..n |->
        IF i > n - RecentThoughtWindow
        THEN (IF i - Max(0, n - RecentThoughtWindow) <= k
              THEN Cyclic(ExistentialPool, i) ELSE Cyclic(OrdinaryPool, i))
        ELSE (IF old_existential THEN Cyclic(ExistentialPool, i) ELSE Cyclic(OrdinaryPool, i))]

InitBloom ==
    /\ InitComponents(PatternMixed, 0)
    /\ level \in {D(lvl) : lvl \in BloomLevels}
    /\ awareness_type = AwarenessOf(level)
    /\ active_thoughts = <<>>
    /\ \E n \in BloomLengths, k \in BloomRecentExistential, old \in BOOLEAN :
          thought_history = BuiltHistory(n, k, old)
    /\ \E e \in BloomEmpathy, h \in BloomHarmony :
          ethical_framework = [empathy |-> D(e), self_preservation |-> D(50000),
                               curiosity |-> D(50000), harmony |-> D(h)]
    /\ InitMainIdle
    /\ InitHarness

NextBloom == ConsCheckBloom

SpecBloom == InitBloom /\ [][NextBloom]_vars

(***************************************************************************)
(* Claims about the consciousness layer.                                   *)
(***************************************************************************)
\* C7 (SpecBloom): check_bloom() is true if and only if level >= 0.95, the
\* thought history has at least 50 entries, empathy > 0.3 and harmony > 0.25,
\* at least 10 of the most recent 20 thought-history entries hold an
\* existential marker, and empathy >= 0.6 and harmony >= 0.5.
C7_BloomIff ==
    IsCall("check_bloom") =>
        (last_call.result <=>
            /\ AtLeast(level, 950000)
            /\ Len(thought_history) >= 50
            /\ Above(ethical_framework.empathy, 300000)
            /\ Above(ethical_framework.harmony, 250000)
            /\ Cardinality({i \in 1..Len(thought_history) :
                               /\ i > Len(thought_history) - 20
                               /\ thought_history[i] \in ExistentialThoughts}) >= 10
            /\ AtLeast(ethical_framework.empathy, 600000)
            /\ AtLeast(ethical_framework.harmony, 500000))

\* check_bloom() has answered true
C7_Witness == IsCall("check_bloom") /\ last_call.result = TRUE

\* check_bloom() has answered false at level 0.96 because the history is short
C7_WitnessShortHistory ==
    /\ IsCall("check_bloom") /\ last_call.result = FALSE
    /\ level = D(960000) /\ Len(thought_history) < 50
    /\ AtLeast(ethical_framework.empathy, 600000)
    /\ AtLeast(ethical_framework.harmony, 500000)

\* C8 (SpecCons): the level is always within [0.0, 1.0], and an update() never
\* lowers it (only adjust(), the rebirth reset, can).
C8_LevelBoundedMonotone ==
    /\ [](AtLeast(level, 0) /\ AtMost(level, One))
    /\ [][last_call'.op = "update" => FLeq(level, level')]_vars

\* an update() has driven the level into the clamp at 1.0
C8_Witness == IsCall("update") /\ level = D(One) /\ calls >= 2

\* C9 as stated (SpecCons): right after an update() that adjusts the ethical
\* framework its four values are non-negative and sum to 1.0 and its keys are
\* still the four dimensions.
C9_FrameworkSumsToOne ==
    (IsCall("update") /\ "ethical_impact" \in DOMAIN last_call.args.ev) =>
        /\ DOMAIN ethical_framework = EthicalDimensions
        /\ \A k \in EthicalDimensions : AtLeast(ethical_framework[k], 0)
        /\ FrameworkSum(ethical_framework) = D(One)

\* C9 as amended (SpecCons): right after an update() that adjusts the ethical
\* framework its four values are non-negative, its keys are still the four
\* dimensions, and the values sum to 1.0 up to the rounding of the float
\* divisions and additions (the sum is within 2^-50 of 1.0).
C9_FrameworkNormalized ==
    (IsCall("update") /\ "ethical_impact" \in DOMAIN last_call.args.ev) =>
        /\ DOMAIN ethical_framework = EthicalDimensions
        /\ \A k \in EthicalDimensions : AtLeast(ethical_framework[k], 0)
        /\ Near(FrameworkSum(ethical_framework), D(One))

\* an update() with an ethical impact has left a framework whose float sum is
\* not 1.0
C9_Witness ==
    /\ IsCall("update") /\ "ethical_impact" \in DOMAIN last_call.args.ev
    /\ ethical_framework # InitialEthicalFramework
    /\ FrameworkSum(ethical_framework) # D(One)

\* C10 as stated (SpecCons): the framework changes only when ethical_impact is
\* nonzero; a zero impact leaves the four values unchanged, a positive impact
\* raises empathy and harmony, a negative impact raises self_preservation.
C10_OnlyNonzeroImpact ==
    [][last_call'.op = "update" =>
          LET ev == last_call'.args.ev
              impact == IF "ethical_impact" \in DOMAIN ev THEN ev.ethical_impact ELSE D(0)
              old == ethical_framework
              new == ethical_framework'
          IN  /\ FEq(impact, FInt(0)) => new = old
              /\ FLess(FInt(0), impact) =>
                    /\ FLess(old.empathy, new.empathy)
                    /\ FLess(old.harmony, new.harmony)
              /\ FLess(impact, FInt(0)) =>
                    FLess(old.self_preservation, new.self_preservation)]_vars

\* C10 as amended (SpecCons): the framework changes whenever the event carries
\* an ethical_impact, zero included, and is unchanged when it carries none; a
\* positive impact raises empathy and harmony, and a zero or negative impact
\* raises self_preservation, relative to the dimensions the update does not
\* bump, whose mutual proportions stay as they were up to float rounding
\* (proportions are compared by cross-multiplication with curiosity, which no
\* update bumps).
C10_ImpactPresent ==
    [][last_call'.op = "update" =>
          LET ev == last_call'.args.ev
              old == ethical_framework
              new == ethical_framework'
              Up(k) == FLess(FMul(old[k], new.curiosity), FMul(new[k], old.curiosity))
              Same(k) == Near(FMul(old[k], new.curiosity), FMul(new[k], old.curiosity))
          IN  IF "ethical_impact" \notin DOMAIN ev
              THEN ethical_framework' = ethical_framework
              ELSE /\ ethical_framework' # ethical_framework
                   /\ IF FLess(FInt(0), ev.ethical_impact)
                      THEN Up("empathy") /\ Up("harmony") /\ Same("self_preservation")
                      ELSE Up("self_preservation") /\ Same("empathy") /\ Same("harmony")]_vars

\* an update() with ethical_impact exactly 0 has changed the framework
C10_Witness ==
    /\ IsCall("update") /\ "ethical_impact" \in DOMAIN last_call.args.ev
    /\ FEq(last_call.args.ev.ethical_impact, FInt(0))
    /\ calls = 1
    /\ ethical_framework # InitialEthicalFramework

(***************************************************************************)
(* Claims about the run of main() (checked under Spec).                    *)
(***************************************************************************)
\* C2: after every process_rebirth() the emotion engine the driver goes on
\* using has an empty current-emotion mapping and an empty emotion history.
C2_DriverEmotionsDiscarded ==
    [][(pc = "process_rebirth" /\ current_cycle' = current_cycle + 1) =>
          (current_emotions' = <<>> /\ emotion_history' = <<>>)]_vars

\* C11 (SpecCons): an update() appends thoughts by the tier of the level it has
\* just reached: two above 0.7, exactly one in (0.5, 0.7], exactly one in
\* (0.3, 0.5], none at 0.3 or below; the active thoughts and the thought
\* history grow by the same entries.
C11_ThoughtTiers ==
    [][last_call'.op = "update" =>
          LET n == IF Above(level', 700000) THEN 2
                   ELSE IF Above(level', 500000) THEN 1
                   ELSE IF Above(level', 300000) THEN 1
                   ELSE 0
          IN  /\ Len(active_thoughts') = Len(active_thoughts) + n
              /\ Len(thought_history') = Len(thought_history) + n
              /\ SubSeq(active_thoughts', 1, Len(active_thoughts)) = active_thoughts
              /\ SubSeq(thought_history', 1, Len(thought_history)) = thought_history
              /\ SubSeq(active_thoughts', Len(active_thoughts) + 1, Len(active_thoughts'))
                    = SubSeq(thought_history', Len(thought_history) + 1, Len(thought_history'))]_vars

\* C12 (SpecCons): process_rebirth() leaves the level at rebirth_threshold x 0.5
\* = 0.4 whatever it was, the awareness tier is the one of that level, and the
\* thought history and the ethical framework are as before; adjust(new_level)
\* sets the level to new_level clamped into [0.1, 1.0] and re-derives the tier.
C12_RebirthResetsLevelOnly ==
    [][/\ last_call'.op = "process_rebirth" =>
            /\ level' = D(400000)
            /\ awareness_type' = "emotional"
            /\ thought_history' = thought_history
            /\ ethical_framework' = ethical_framework
       /\ last_call'.op = "adjust" =>
            /\ level' = D(IF last_call'.args.new_level < 100000 THEN 100000
                          ELSE IF last_call'.args.new_level > One THEN One
                          ELSE last_call'.args.new_level)
            /\ awareness_type' = (IF AtLeast(level', 850000) THEN "transcendent"
                                  ELSE IF AtLeast(level', 600000) THEN "self-aware"
                                  ELSE IF AtLeast(level', 300000) THEN "emotional"
                                  ELSE "base")]_vars

\* a rebirth has brought the level down to 0.4 on a layer that had thoughts
\* and an evolved ethical framework
C12_Witness ==
    /\ IsCall("process_rebirth")
    /\ Above(last_call.args.level_before, 400000)
    /\ level = D(400000)
    /\ thought_history # <<>>
    /\ ethical_framework # InitialEthicalFramework

\* the events of the cycle that is being completed, the emotion each one raised
\* and the LifeMetrics the rebirth step handed to evolve_traits
CycleEvents == SubSeq(event_history, Len(event_history) - cycle_events + 1, Len(event_history))
FeltEmotion(ev) == generate_emotion(ev.type, calculate_intensity(ev))
RebirthStep == pc = "process_rebirth" /\ current_cycle' = current_cycle + 1
EvolvedWith == evolution_history'[Len(evolution_history')].life_metrics

\* C13 (Spec): the LifeMetrics process_rebirth() passes to evolve count the
\* cycle's events with positive and with negative ethical_impact in
\* ethical_choices, and the experiences stored in the cycle in
\* significant_experiences.
C13_MetricsCountCycle ==
    [][RebirthStep =>
          /\ EvolvedWith.ethical_choices.positive =
                Cardinality({i \in 1..Len(CycleEvents) :
                                FLess(FInt(0), CycleEvents[i].ethical_impact)})
          /\ EvolvedWith.ethical_choices.negative =
                Cardinality({i \in 1..Len(CycleEvents) :
                                FLess(CycleEvents[i].ethical_impact, FInt(0))})
          /\ EvolvedWith.significant_experiences =
                Cardinality({i \in 1..Len(CycleEvents) :
                    AtLeast(MemCalculateSignificance(CycleEvents[i],
                                                     FeltEmotion(CycleEvents[i])),
                            memory_threshold)})]_vars

\* C14 (Spec): the LifeMetrics process_rebirth() passes to evolve hold the
\* level last observed in the cycle as consciousness_level, and in
\* emotional_peaks every emotion felt in the cycle with the maximum intensity
\* it reached.
C14_MetricsLevelAndPeaks ==
    [][RebirthStep =>
          /\ EvolvedWith.consciousness_level = level
          /\ \A i \in 1..Len(CycleEvents) :
                LET felt == FeltEmotion(CycleEvents[i])
                IN  /\ felt.type \in DOMAIN EvolvedWith.emotional_peaks
                    /\ \A j \in 1..Len(CycleEvents) :
                          FeltEmotion(CycleEvents[j]).type = felt.type =>
                              FLeq(FeltEmotion(CycleEvents[j]).intensity,
                                     EvolvedWith.emotional_peaks[felt.type])
                    /\ \E j \in 1..Len(CycleEvents) :
                          /\ FeltEmotion(CycleEvents[j]).type = felt.type
                          /\ FeltEmotion(CycleEvents[j]).intensity
                                = EvolvedWith.emotional_peaks[felt.type]]_vars

\* C15 (SpecMem): process_rebirth() selects the inheritance snapshot, prunes,
\* inherits, replaces the emotion engine, evolves the personality, resets the
\* LifeMetrics and resets the level, in that order: the store is the pruned
\* store followed by the snapshot, evolve_traits runs exactly once (one more
\* evolution_history entry) on the LifeMetrics as they were before the reset,
\* and afterwards the LifeMetrics are a fresh empty accumulator.
C15_RebirthStepOrder ==
    [][last_call'.op = "process_rebirth" =>
          LET n == Len(evolution_history)
              selected == select_inherited_memories(mem_heap, memories)
          IN  /\ memories' = forget_old_memories(mem_heap, memories, ForgetThresholdDefault)
                                \o selected
              /\ rebirth_emotion_engine' = "fresh"
              /\ Len(evolution_history') = n + 1
              /\ SubSeq(evolution_history', 1, n) = evolution_history
              /\ evolution_history'[n + 1].life_metrics = current_life_metrics
              /\ evolution_history'[n + 1].pre_evolution = [t \in TraitNames |-> traits[t].value]
              /\ evolution_history'[n + 1].post_evolution = [t \in TraitNames |-> traits'[t].value]
              /\ current_life_metrics' =
                    [emotional_peaks |-> <<>>, consciousness_level |-> D(0),
                     significant_experiences |-> 0, life_duration |-> D(0),
                     ethical_choices |-> [positive |-> 0, negative |-> 0]]
              /\ level' = D(400000)]_vars

\* a rebirth has evolved the personality with LifeMetrics that held an observed
\* level, and has left a fresh accumulator
C15_Witness ==
    /\ IsCall("process_rebirth")
    /\ Len(evolution_history) = 1
    /\ Above(evolution_history[1].life_metrics.consciousness_level, 0)
    /\ current_life_metrics.consciousness_level = D(0)

(***************************************************************************)
(* API harness of the emotion engine: process / decay / dominant on a      *)
(* freshly constructed EmotionEngine.  The number of process() calls is    *)
(* bounded; decay() and dominant() can be called at any time.              *)
(***************************************************************************)
MaxProcessCalls == 2

\* events of two mapped kinds, and one with neither a type nor a significance
\* within [0, 1] (the trigger defaults to "", the intensity is clamped)
EmoEvents ==
    {[type |-> t, significance |-> D(sg)] :
        t \in {"connection", "loss"}, sg \in {120000, 500000}}
        \cup {[significance |-> D(One + 500000)]}

OnlyEmotion ==
    UNCHANGED <<memVars, consVars, persVars, rebVars, envVars, mainVars, calls>>

EmoProcess(ev) ==
    /\ Len(emotion_history) < MaxProcessCalls
    /\ \E r \in {process_emotion(current_emotions, emotion_history, ev)} :
          /\ current_emotions' = r.current
          /\ emotion_history' = r.history
          /\ last_call' = [op |-> "process", args |-> [ev |-> ev],
                           result |-> [emotion |-> r.history[r.emotion]]]
    /\ OnlyEmotion

EmoDecay ==
    /\ \E r \in {decay_emotions(current_emotions, emotion_history)} :
          /\ current_emotions' = r.current
          /\ emotion_history' = r.history
    /\ last_call' = [op |-> "decay", args |-> <<>>, result |-> [none |-> TRUE]]
    /\ OnlyEmotion

EmoDominant ==
    /\ last_call' = [op |-> "dominant", args |-> <<>>,
                     result |-> [dominant |-> get_dominant_emotion(current_emotions,
                                                                   emotion_history)]]
    /\ UNCHANGED emoVars
    /\ OnlyEmotion

InitEmo ==
    /\ InitComponents(PatternMixed, 0)
    /\ InitConsciousness
    /\ InitMainIdle
    /\ InitHarness

NextEmo ==
    \/ \E ev \in EmoEvents : EmoProcess(ev)
    \/ EmoDecay
    \/ EmoDominant

SpecEmo == InitEmo /\ [][NextEmo]_vars

\* decay() keeps being called
SpecEmoFair == SpecEmo /\ WF_vars(EmoDecay)

\* the intensity of the current record of emotion t
CurrentIntensity(cur, hist, t) ==
    hist[cur[CHOOSE i \in 1..Len(cur) : cur[i].type = t].ref].intensity

(***************************************************************************)
(* Claims about the emotion engine.                                        *)
(***************************************************************************)
\* C16 (SpecEmo): decay() multiplies the intensity of every current record by
\* (1 - decay_rate); a result above 0.1 is kept, any other record leaves the
\* current mapping; the emotion history keeps its length and its entries; so
\* after decay() every current record has its intensity in (0.1, 1.0].
C16_DecayLeavesHistory ==
    [][last_call'.op = "decay" =>
          /\ EmotionTypes(current_emotions') \subseteq EmotionTypes(current_emotions)
          /\ \A t \in EmotionTypes(current_emotions) :
                LET before == CurrentIntensity(current_emotions, emotion_history, t)
                    reduced == FMul(before, FSub(FInt(1), D(DefaultDecayRate)))
                IN  IF Above(reduced, 100000)
                    THEN /\ t \in EmotionTypes(current_emotions')
                         /\ CurrentIntensity(current_emotions', emotion_history', t) = reduced
                    ELSE t \notin EmotionTypes(current_emotions')
          /\ \A t \in EmotionTypes(current_emotions') :
                /\ Above(CurrentIntensity(current_emotions', emotion_history', t), 100000)
                /\ AtMost(CurrentIntensity(current_emotions', emotion_history', t), One)
          /\ emotion_history' = emotion_history]_vars

\* C17 (SpecEmoFair): every decay() strictly lowers the intensity of each
\* record it keeps; a current record is dropped after finitely many decay()
\* calls; and dominant() only ever names an emotion that is current, so never
\* one that has been dropped and not processed again.
C17_DecayUntilDropped ==
    /\ [][last_call'.op = "decay" =>
            \A t \in EmotionTypes(current_emotions) \cap EmotionTypes(current_emotions') :
                FLess(CurrentIntensity(current_emotions', emotion_history', t),
                        CurrentIntensity(current_emotions, emotion_history, t))]_vars
    /\ \A t \in base_emotions :
          (t \in EmotionTypes(current_emotions)) ~> (t \notin EmotionTypes(current_emotions))
    /\ [](IsCall("dominant") =>
            \/ last_call.result.dominant[1] \in EmotionTypes(current_emotions)
            \/ current_emotions = <<>> /\ last_call.result.dominant[1] = "neutral")

\* every record that was produced has been dropped by decay() and dominant()
\* has answered with the sentinel
C17_Witness ==
    /\ IsCall("dominant")
    /\ Len(emotion_history) = MaxProcessCalls
    /\ current_emotions = <<>>
    /\ last_call.result.dominant = <<"neutral", D(0)>>

\* C18 (SpecEmo): dominant() returns the name and intensity of a current record
\* of maximal intensity, ("neutral", 0.0) exactly when there is no current
\* record, and among equally intense records the one whose name entered the
\* current mapping first.
C18_DominantIsFirstMaximum ==
    IsCall("dominant") =>
        /\ (last_call.result.dominant = <<"neutral", D(0)>>) <=> (current_emotions = <<>>)
        /\ current_emotions # <<>> =>
              \E i \in 1..Len(current_emotions) :
                  LET Intensity(k) == emotion_history[current_emotions[k].ref].intensity
                  IN  /\ last_call.result.dominant = <<current_emotions[i].type, Intensity(i)>>
                      /\ \A j \in 1..Len(current_emotions) : FLeq(Intensity(j), Intensity(i))
                      /\ \A j \in 1..(i - 1) : FLess(Intensity(j), Intensity(i))

\* dominant() has answered while two current records were equally intense
C18_Witness ==
    /\ IsCall("dominant")
    /\ Len(current_emotions) = 2
    /\ emotion_history[current_emotions[1].ref].intensity
          = emotion_history[current_emotions[2].ref].intensity
    /\ last_call.result.dominant[1] = current_emotions[1].type

(***************************************************************************)
(* Claims about the driver loop.                                           *)
(***************************************************************************)
\* the components one step of the run may touch, by the statement it executes
TickStatements == {"generate_event", "process_emotion", "store_experience",
                   "process_experience", "decay_emotions", "check_silent_bloom"}

\* the number of decay passes made so far in the run
DecayPasses == total_events

\* a step that leaves the try block through the KeyboardInterrupt handler: the
\* statement at pc has run in part, or not at all, and no other statement has
\* run (no list has grown by more than the statement's one entry)
InterruptStep ==
    /\ pc \in TryStatements
    /\ pc' = "finally"
    /\ Len(event_history') - Len(event_history) \in {0, 1}
    /\ Len(emotion_history') - Len(emotion_history) \in {0, 1}
    /\ pc # "process_rebirth" => Len(memories') - Len(memories) \in {0, 1}
    /\ DecayPasses' - DecayPasses \in {0, 1}
    /\ cycle_events' \in {0, cycle_events, cycle_events + 1}
    /\ Len(evolution_history') - Len(evolution_history) \in {0, 1}
    /\ current_cycle' - current_cycle \in {0, 1}

\* C19 (Spec): in the driver every tick performs, exactly once each and in this
\* order, generate_event, process_emotion, store_experience, process_experience,
\* decay_emotions and then the Silent Bloom check; each component is touched
\* only by its own statement; a tick starts only when every event generated so
\* far has been felt and followed by its decay pass; and when the check is true
\* the run goes to its end, after which no tick and no rebirth happens.  The
\* only other way out of a tick is a keyboard interrupt, which ends the run as
\* well, in or before the statement it meets: it is followed by the final save
\* alone, never by a statement of a tick or a rebirth.
C19_TickOrder ==
    /\ [][/\ pc = "generate_event" =>
                \/ InterruptStep
                \/ /\ pc' = "process_emotion"
                   /\ event_history' = Append(event_history, event')
          /\ pc = "process_emotion" =>
                \/ InterruptStep
                \/ /\ pc' = "store_experience"
                   /\ Len(emotion_history') = Len(emotion_history) + 1
                   /\ emotional_response' = Len(emotion_history')
          /\ pc = "store_experience" =>
                \/ InterruptStep
                \/ /\ pc' = "process_experience"
                   /\ Len(memories') - Len(memories) \in {0, 1}
          /\ pc = "process_experience" =>
                \/ InterruptStep
                \/ /\ pc' = "decay_emotions"
                   /\ FLeq(level, level')
          /\ pc = "decay_emotions" =>
                \/ InterruptStep
                \/ /\ pc' = "check_silent_bloom"
                   /\ DecayPasses' = DecayPasses + 1
                   /\ cycle_events' = cycle_events + 1
          /\ pc = "check_silent_bloom" =>
                /\ pc' \in {"generate_event", "process_rebirth", "finally"}
                /\ check_silent_bloom_conditions(level, thought_history, ethical_framework)
                      => pc' = "finally"
          /\ event_history' # event_history => pc = "generate_event"
          /\ emotion_history' # emotion_history => pc \in {"process_emotion", "decay_emotions"}
          /\ Len(emotion_history') # Len(emotion_history) => pc = "process_emotion"
          /\ memories' # memories => pc \in {"store_experience", "process_rebirth"}
          /\ level' # level => pc \in {"process_experience", "process_rebirth"}
          /\ thought_history' # thought_history => pc = "process_experience"
          /\ DecayPasses' # DecayPasses => pc = "decay_emotions"
          /\ evolution_history' # evolution_history => pc = "process_rebirth"
          /\ pc' = "generate_event" => pc \in {"cycle_start", "check_silent_bloom"}
          /\ pc \in {"finally", "done", "raised"} =>
                /\ pc' \in {"done", "raised"}
                /\ UNCHANGED <<event_history, emotion_history, memories, level,
                               evolution_history, total_events>>]_vars
    /\ [](pc = "generate_event" =>
             /\ Len(event_history) = DecayPasses
             /\ Len(emotion_history) = DecayPasses)
    /\ [](pc \in TickStatements \ {"generate_event"} =>
             Len(event_history) = DecayPasses + (IF pc = "check_silent_bloom" THEN 0 ELSE 1))

\* the second tick of a life cycle has gone through its decay pass: two events
\* generated, two emotions felt, two decay passes
C19_Witness ==
    /\ pc = "check_silent_bloom"
    /\ cycle_events = 2
    /\ Len(event_history) = DecayPasses
    /\ Len(emotion_history) = DecayPasses
    /\ DecayPasses >= 2

(***************************************************************************)
(* API harness of the personality: any sequence of evolve_traits calls on  *)
(* a new PersonalityModule, with LifeMetrics of any content.               *)
(***************************************************************************)
MaxEvolveCalls == 2

PeakSets == {{}, {"joy", "love"}, {"fear", "curiosity", "sadness"}}
EvolveLevels == {-140 * One, 0, One, 140 * One}
EthicalChoices == {[positive |-> 0, negative |-> 0], [positive |-> 7, negative |-> 3]}

EvolveMetrics ==
    {[emotional_peaks |-> [t \in peaks |-> D(One)], consciousness_level |-> D(lvl),
      significant_experiences |-> 0, life_duration |-> D(0), ethical_choices |-> choices] :
        peaks \in PeakSets, lvl \in EvolveLevels, choices \in EthicalChoices}

EvolveMutationDraws ==
    {NoMutation, [mutate |-> TRUE, trait |-> "empathy", amount |-> mutation(RandomLeast)],
     [mutate |-> TRUE, trait |-> "harmony", amount |-> mutation(D(900000))]}

OnlyPersonality == UNCHANGED <<memVars, emoVars, consVars, rebVars, envVars, mainVars>>

PersEvolve(life_metrics, draw) ==
    /\ calls < MaxEvolveCalls
    /\ \E r \in {evolve_traits(traits, life_metrics, draw)} :
          /\ traits' = r.traits
          /\ evolution_history' = Append(evolution_history, r.record)
    /\ UNCHANGED soul_id
    /\ Note("evolve", <<life_metrics>>, <<>>)
    /\ OnlyPersonality

\* _evolve_from_ethics called on its own
EthicsRuleChoices == {[positive |-> 0, negative |-> 0], [positive |-> 3, negative |-> 2],
                      [positive |-> 2, negative |-> 1], [positive |-> 0, negative |-> 4]}

PersEthics(ethical_choices) ==
    /\ calls < MaxEvolveCalls
    /\ traits' = evolve_from_ethics(traits, ethical_choices)
    /\ UNCHANGED <<soul_id, evolution_history>>
    /\ Note("evolve_from_ethics", <<ethical_choices>>, <<>>)
    /\ OnlyPersonality

\* PersonalityModule.__init__; the other components as main builds them
InitPers ==
    /\ storage_file = JsonFile("array", <<>>)
    /\ mem_heap = LoadedHeap(PatternMixed, 0)
    /\ memories = <<>>
    /\ current_emotions = <<>>
    /\ emotion_history = <<>>
    /\ soul_id \in SoulIds
    /\ traits = initialize_traits
    /\ evolution_history = <<>>
    /\ rebirth_emotion_engine = "driver"
    /\ current_life_metrics = initialize_life_metrics
    /\ event_history = <<>>
    /\ InitConsciousness
    /\ InitMainIdle
    /\ InitHarness

NextPers ==
    \/ \E life_metrics \in EvolveMetrics, draw \in EvolveMutationDraws :
          PersEvolve(life_metrics, draw)
    \/ \E ethical_choices \in EthicsRuleChoices : PersEthics(ethical_choices)

SpecPers == InitPers /\ [][NextPers]_vars

\* C20 (SpecPers): after any sequence of evolve() calls with arbitrary
\* LifeMetrics the personality has exactly the six traits empathy, curiosity,
\* resilience, adaptability, creativity and harmony, each value is within
\* [0.0, 1.0], each evolution_rate is the one the trait was created with, and
\* the soul identifier is the one drawn at construction.
C20_TraitsBoundedIdentityKept ==
    /\ [](/\ DOMAIN traits = {"empathy", "curiosity", "resilience", "adaptability",
                              "creativity", "harmony"}
          /\ \A t \in DOMAIN traits :
                /\ AtLeast(traits[t].value, 0) /\ AtMost(traits[t].value, One)
                /\ traits[t].evolution_rate = initialize_traits[t].evolution_rate)
    /\ [][soul_id' = soul_id]_vars

\* two evolve() calls have been made, one trait was stopped at 1.0 and another
\* one at 0.0 on the way
C20_Witness ==
    /\ IsCall("evolve")
    /\ Len(evolution_history) = MaxEvolveCalls
    /\ \E t \in DOMAIN traits : traits[t].value = D(One)
    /\ \E i \in 1..Len(evolution_history), t \in TraitNames :
          evolution_history[i].post_evolution[t] = D(0)

\* the value a trait has after a bump of the given hundredths
BumpedValue(value, hundredths) ==
    FMin(D(One), FAdd(value, D(hundredths * (One \div 100))))

\* C21 (SpecPers): the ethical-ratio rule never fails; the ratio is
\* positive / (positive + negative), the denominator taken as 1 when both
\* counts are zero; a ratio above 0.6 bumps exactly empathy (0.05) and harmony
\* (0.04), any other ratio (exactly 0.6 and zero/zero included) bumps exactly
\* resilience (0.03) and adaptability (0.05).
C21_EthicalRatioRule ==
    [][last_call'.op = "evolve_from_ethics" =>
          LET positive == last_call'.args[1].positive
              negative == last_call'.args[1].negative
              denominator == IF positive = 0 /\ negative = 0 THEN 1 ELSE positive + negative
          IN  IF 10 * positive > 6 * denominator
              THEN traits' = [traits EXCEPT !.empathy.value = BumpedValue(@, 5),
                                            !.harmony.value = BumpedValue(@, 4)]
              ELSE traits' = [traits EXCEPT !.resilience.value = BumpedValue(@, 3),
                                            !.adaptability.value = BumpedValue(@, 5)]]_vars

\* the rule has been applied to 3 positive and 2 negative choices (ratio exactly
\* 0.6) and has bumped resilience and adaptability of a new personality
C21_Witness ==
    /\ IsCall("evolve_from_ethics")
    /\ last_call.args[1] = [positive |-> 3, negative |-> 2]
    /\ calls = 1
    /\ traits.resilience.value = FAdd(initialize_traits.resilience.value, D(30000))
    /\ traits.adaptability.value = FAdd(initialize_traits.adaptability.value, D(50000))
    /\ traits.empathy = initialize_traits.empathy

(***************************************************************************)
(* Construction of a MemoryCore over a storage path holding any document.  *)
(***************************************************************************)
MaxItems == 3

\* elements of a stored array: two complete records (one with a member more),
\* a record without recall_count, and a number
DocItems ==
    {LoadedMemory(PatternMixed, 1),
     [content |-> "x", emotional_tags |-> <<>>, significance |-> D(500000), timestamp |-> "ts",
      recall_count |-> 2, extra |-> 1],
     [content |-> "x", emotional_tags |-> <<>>, significance |-> D(500000), timestamp |-> "ts"],
     Scalar("number")}

StorageDocs ==
    {JsonFile("array", items) : items \in UNION {[1..k -> DocItems] : k \in 0..MaxItems}}
    \cup {MissingFile, UnparseableFile,
          JsonFile("object", <<>>), JsonFile("object", <<Scalar("string")>>),
          JsonFile("string", <<>>), JsonFile("string", <<Scalar("string")>>),
          JsonFile("number", <<>>), JsonFile("null", <<>>)}

\* MemoryCore(storage_path): when __init__ raises there is no store
LoadConstruct ==
    /\ calls = 0
    /\ \E r \in {MemoryCoreInit(storage_file)} :
          /\ storage_file' = r.file
          /\ mem_heap' = IF r.raised = "none" THEN r.heap ELSE mem_heap
          /\ memories' = IF r.raised = "none" THEN r.list ELSE memories
          /\ Note("construct", <<>>, [raised |-> r.raised, diagnostic |-> r.diagnostic])
    /\ OnlyMemory

InitLoad ==
    /\ storage_file \in StorageDocs
    /\ mem_heap = <<>>
    /\ memories = <<>>
    /\ current_emotions = <<>>
    /\ emotion_history = <<>>
    /\ soul_id \in DriverSoulIds
    /\ traits = initialize_traits
    /\ evolution_history = <<>>
    /\ rebirth_emotion_engine = "driver"
    /\ current_life_metrics = initialize_life_metrics
    /\ event_history = <<>>
    /\ InitConsciousness
    /\ InitMainIdle
    /\ InitHarness

NextLoad == LoadConstruct

SpecLoad == InitLoad /\ [][NextLoad]_vars

\* a document that is not the saved form of a store: not parseable, or not an
\* array of records carrying all Memory fields
Malformed(file) ==
    \/ ~file.parses
    \/ file.kind # "array"
    \/ \E i \in 1..Len(file.items) : ~(MemoryFields \subseteq DOMAIN file.items[i])

\* C22 (SpecLoad): constructing the store over a missing file creates an empty
\* valid snapshot and yields an empty store; over a malformed document (not
\* parseable, or not a list of records carrying all Memory fields) the store is
\* empty, a diagnostic is emitted and no error reaches the caller.
C22_LoadFallsBack ==
    [][last_call'.op = "construct" =>
          /\ ~storage_file.exists =>
                /\ storage_file' = JsonFile("array", <<>>)
                /\ memories' = <<>>
                /\ last_call'.result.raised = "none"
          /\ storage_file.exists /\ Malformed(storage_file) =>
                /\ memories' = <<>>
                /\ last_call'.result.diagnostic
                /\ last_call'.result.raised = "none"]_vars

\* C23 (SpecMem): round trip: for every collection reached by store, recall,
\* prune, inherit and process_rebirth, saving it and loading it into a new
\* store gives a collection of the same length and order in which every record
\* has the same content, significance, emotional_tags and recall_count.
C23_SaveLoadRoundTrip ==
    IsCall("save_reload") =>
        /\ last_call.result.raised = "none"
        /\ Len(last_call.result.returned) = Len(memories)
        /\ \A i \in 1..Len(memories) :
              LET saved == mem_heap[memories[i]]
                  loaded == last_call.result.returned[i]
              IN  /\ loaded.content = saved.content
                  /\ loaded.significance = saved.significance
                  /\ loaded.emotional_tags = saved.emotional_tags
                  /\ loaded.recall_count = saved.recall_count

\* a collection that holds the same record twice (after an inheritance) and a
\* record recalled at least once has been saved and loaded
C23_Witness ==
    /\ IsCall("save_reload")
    /\ calls = MaxCalls
    /\ \E i, j \in 1..Len(memories) : i < j /\ memories[i] = memories[j]
    /\ \E i \in 1..Len(memories) : last_call.result.returned[i].recall_count > 0

(***************************************************************************)
(* API harness of the event source: any sequence of generate_event calls   *)
(* on a new EnvironmentSimulator.                                          *)
(***************************************************************************)
MaxGenerated == 6

\* the weights handed to random.choices, by candidate type (none when the
\* history is empty and random.choice is used)
TypeWeights(history) ==
    IF history = <<>> THEN <<>>
    ELSE [t \in EventTypes \ {history[Len(history)].type} |-> calculate_type_weight(history, t)]

OnlyEnvironment == UNCHANGED <<memVars, emoVars, consVars, persVars, rebVars, mainVars>>

EnvGenerate ==
    /\ Len(event_history) < MaxGenerated
    /\ \E ev \in GeneratedEvents(event_history, EnvEventsByKind) :
          /\ event_history' = record_event(event_history, ev)
          /\ Note("generate_event", <<>>,
                  [event |-> ev, weights |-> TypeWeights(event_history)])
    /\ OnlyEnvironment

InitEnv ==
    /\ InitComponents(PatternMixed, 0)
    /\ InitConsciousness
    /\ InitMainIdle
    /\ InitHarness

NextEnv == EnvGenerate

SpecEnv == InitEnv /\ [][NextEnv]_vars

\* C24 (SpecEnv): generate_event() never produces the category of the
\* immediately preceding generated event: in every event history no two
\* consecutive events have the same kind.
C24_NoImmediateRepeat ==
    \A i \in 1..(Len(event_history) - 1) : event_history[i].type # event_history[i + 1].type

\* a history of MaxGenerated events in which a kind occurs again after one
\* event of another kind
C24_Witness ==
    /\ IsCall("generate_event")
    /\ Len(event_history) = MaxGenerated
    /\ \E i \in 1..(Len(event_history) - 2) : event_history[i].type = event_history[i + 2].type

\* the kinds among the most recent (up to) 5 events of a history
RecentKinds(history) ==
    {history[i].type : i \in Max(1, Len(history) - 4)..Len(history)}

\* C25 (SpecEnv): in the category weighting of generate_event() every candidate
\* category that occurs among the most recent (up to) 5 generated events has its
\* weight halved, for every non-empty history length, shorter than 5 included;
\* the growth-enabling categories (challenge, discovery, reflection) have their
\* weight multiplied by 1.2; the base weight is 1.0 (weights in hundredths).
C25_RecentKindsHalved ==
    [][last_call'.op = "generate_event" /\ event_history # <<>> =>
          \A t \in DOMAIN last_call'.result.weights :
              last_call'.result.weights[t] =
                  (((IF t \in RecentKinds(event_history) THEN 50 ELSE 100)
                    * (IF t \in {"challenge", "discovery", "reflection"} THEN 12 ELSE 10))
                   \div 10)]_vars

\* C26 (SpecEnv): every event returned by generate_event() has significance
\* within [0.1, 1.0] and ethical_impact within [-1.0, 1.0], its kind is one of
\* the six fixed categories, and it has been appended to the event history,
\* whose length grows by exactly one per call.
C26_EventWellFormed ==
    [][last_call'.op = "generate_event" =>
          LET ev == last_call'.result.event
          IN  /\ AtLeast(ev.significance, 100000) /\ AtMost(ev.significance, One)
              /\ AtLeast(ev.ethical_impact, -One) /\ AtMost(ev.ethical_impact, One)
              /\ ev.type \in {"challenge", "discovery", "connection", "loss", "growth",
                              "reflection"}
              /\ Len(event_history') = Len(event_history) + 1
              /\ SubSeq(event_history', 1, Len(event_history)) = event_history
              /\ event_history'[Len(event_history')] = ev]_vars

\* events at both ends of the ranges the templates and the draws give have been
\* returned: significance 0.4 with impact -1.0, and significance 0.9 with the
\* greatest impact below 1.0
C26_Witness ==
    /\ IsCall("generate_event")
    /\ Len(event_history) >= 2
    /\ last_call.result.event.significance = D(900000)
    /\ Above(last_call.result.event.ethical_impact, One - 1)
    /\ Below(last_call.result.event.ethical_impact, One)
    /\ \E i \in 1..Len(event_history) :
          /\ event_history[i].significance = D(400000)
          /\ event_history[i].ethical_impact = D(-One)

(***************************************************************************)
(* API harness of the configuration: any sequence of adjust_difficulty,    *)
(* enable_advanced_features and get_config_summary calls on a new          *)
(* SoulConfig, in an interpreter run with or without -O.                   *)
(***************************************************************************)
MaxConfigCalls == 3

DifficultyLevels == {-One, -1, 0, 1, 100000, 200000, 250000, 300000, 400000, 500000, 600000,
                     750000, 900000, One, One + 1, 2 * One}

\* the dicts passed to enable_advanced_features
FeatureDicts ==
    {[k \in {} |-> FALSE],
     [k \in {"inner_dialogue"} |-> FALSE],
     [k \in {"ethical_learning", "memory_consolidation"} |-> FALSE],
     [k \in {"inner_dialogue", "self_reflection"} |-> TRUE]}

OnlyConfig ==
    /\ UNCHANGED <<pc, current_cycle, events_per_cycle, cycle_events, total_events, event,
                   emotional_response, debug>>
    /\ UNCHANGED <<memVars, emoVars, consVars, persVars, rebVars, envVars>>

ConfigAdjust(lvl) ==
    /\ calls < MaxConfigCalls
    /\ \E r \in {adjust_difficulty(config, D(lvl), debug)} :
          /\ config' = r.config
          /\ Note("adjust_difficulty", [level |-> D(lvl)], [raised |-> r.raised])
    /\ OnlyConfig

ConfigEnableFeatures(features) ==
    /\ calls < MaxConfigCalls
    /\ config' = enable_advanced_features(config, features)
    /\ Note("enable_advanced_features", [features |-> features], [none |-> TRUE])
    /\ OnlyConfig

ConfigSummary ==
    /\ calls < MaxConfigCalls
    /\ Note("get_config_summary", [none |-> TRUE], [summary |-> get_config_summary(config)])
    /\ UNCHANGED config
    /\ OnlyConfig

InitConfig ==
    /\ InitComponents(PatternMixed, 0)
    /\ InitConsciousness
    /\ InitIdle
    /\ debug \in BOOLEAN
    /\ InitHarness

NextConfig ==
    \/ \E lvl \in DifficultyLevels : ConfigAdjust(lvl)
    \/ \E features \in FeatureDicts : ConfigEnableFeatures(features)
    \/ ConfigSummary

SpecConfig == InitConfig /\ [][NextConfig]_vars

\* C27 (SpecConfig): adjust_difficulty(level) with level outside [0.0, 1.0] is
\* rejected with an error and leaves every configuration field as it was
\* before the call; with level inside [0.0, 1.0] it completes without error.
C27_AdjustDifficultyRejects ==
    [][last_call'.op = "adjust_difficulty" =>
          LET lvl == last_call'.args.level
          IN  IF Below(lvl, 0) \/ Above(lvl, One)
              THEN /\ last_call'.result.raised # "none"
                   /\ \A field \in DOMAIN config : config'[field] = config[field]
                   /\ DOMAIN config' = DOMAIN config
              ELSE last_call'.result.raised = "none"]_vars

\* the same statement for the interpreter that executes assert statements
\* (__debug__ true, the default): there it holds of every call
RejectsWhenAsserting ==
    [][(debug /\ last_call'.op = "adjust_difficulty") =>
          LET lvl == last_call'.args.level
          IN  IF Below(lvl, 0) \/ Above(lvl, One)
              THEN /\ last_call'.result.raised = "AssertionError"
                   /\ config' = config
              ELSE /\ last_call'.result.raised = "none"
                   /\ config' = AdjustedConfig(config, lvl)]_vars

\* under python -O a level of 2.0 has been accepted and has rewritten the
\* configuration
AcceptedOutOfRange ==
    /\ ~debug
    /\ IsCall("adjust_difficulty")
    /\ last_call.args.level = FInt(2)
    /\ last_call.result.raised = "none"
    /\ config.max_life_cycles = 35
    /\ config.memory_carry_limit = 110
    /\ config.silent_bloom_threshold = D(700000)

\* with assertions on, a configuration adjusted to difficulty 0.5 has then
\* rejected a level just above 1.0 and still holds the values of difficulty 0.5
RejectedOutOfRange ==
    /\ debug
    /\ IsCall("adjust_difficulty")
    /\ calls >= 2
    /\ last_call.args.level = D(One + 1)
    /\ last_call.result.raised = "AssertionError"
    /\ config.max_life_cycles = 12
    /\ config.memory_significance_threshold = D(600000)
    /\ config.silent_bloom_threshold = D(850000)
    /\ config.trait_mutation_rate = D(100000)
    /\ config.memory_carry_limit = 50

\* the level 0.000001 moves every float field by less than a micro unit
AdjustedByOneMicro ==
    /\ IsCall("adjust_difficulty")
    /\ last_call.args.level = D(1)
    /\ calls = 1
    /\ Above(config.memory_significance_threshold, 699999)
    /\ Below(config.memory_significance_threshold, 700000)
    /\ Above(config.consciousness_growth_rate, 5000)
    /\ Below(config.consciousness_growth_rate, 5001)
    /\ Above(config.silent_bloom_threshold, 899999)
    /\ Below(config.silent_bloom_threshold, 900000)
    /\ Above(config.trait_mutation_rate, 50000)
    /\ Below(config.trait_mutation_rate, 50001)
    /\ Above(config.trait_evolution_speed, 30000)
    /\ Below(config.trait_evolution_speed, 30001)
    /\ config.max_life_cycles = 5
    /\ config.memory_carry_limit = 30

\* C28 (SpecCons): the awareness tier is always the tier derived from the
\* current level (>= 0.85 transcendent, >= 0.6 self-aware, >= 0.3 emotional,
\* else base): in the initial state and after every update(), adjust() and
\* rebirth.
C28_TierDerivedFromLevel ==
    awareness_type = CASE AtLeast(level, 850000) -> "transcendent"
                       [] AtLeast(level, 600000) /\ Below(level, 850000) -> "self-aware"
                       [] AtLeast(level, 300000) /\ Below(level, 600000) -> "emotional"
                       [] OTHER -> "base"

\* an update() has lifted the level across 0.6 and the tier with it, after an
\* adjust() or rebirth had set the level below
C28_Witness ==
    /\ IsCall("update")
    /\ calls = MaxConsCalls
    /\ AtLeast(level, 600000) /\ Below(level, 850000)
    /\ awareness_type = "self-aware"

\* C29 (SpecEmo): process(event) produces a record with intensity
\* min(1.0, event.significance), makes it the current record of its emotion
\* name in place of any prior record of that name (the mapping holds at most
\* one record per name and the records of the other names are unchanged), and
\* appends exactly one entry to the emotion history, whose earlier entries are
\* not removed.
C29_ProcessReplacesCurrent ==
    [][last_call'.op = "process" =>
          LET ev == last_call'.args.ev
              produced == last_call'.result.emotion
              others(cur) == {cur[i] : i \in {j \in 1..Len(cur) : cur[j].type # produced.type}}
          IN  /\ produced.intensity =
                    (IF Above(ev.significance, One) THEN D(One) ELSE ev.significance)
              /\ Cardinality({i \in 1..Len(current_emotions') :
                                 current_emotions'[i].type = produced.type}) = 1
              /\ \A i \in 1..Len(current_emotions') :
                    current_emotions'[i].type = produced.type
                       => /\ current_emotions'[i].ref = Len(emotion_history')
                          /\ emotion_history'[current_emotions'[i].ref] = produced
              /\ \A i, j \in 1..Len(current_emotions') :
                    current_emotions'[i].type = current_emotions'[j].type => i = j
              /\ others(current_emotions') = others(current_emotions)
              /\ Len(emotion_history') = Len(emotion_history) + 1
              /\ SubSeq(emotion_history', 1, Len(emotion_history)) = emotion_history
              /\ emotion_history'[Len(emotion_history')] = produced]_vars

\* a second process of the same emotion name has replaced the current record
\* of the first one, with another intensity; the history holds both
C29_Witness ==
    /\ IsCall("process")
    /\ Len(emotion_history) = 2
    /\ emotion_history[1].type = emotion_history[2].type
    /\ emotion_history[1].trigger = emotion_history[2].trigger
    /\ last_call.result.emotion.intensity = D(120000)
    /\ Len(current_emotions) = 1
    /\ current_emotions[1].ref = 2

\* condition 4 of check_silent_bloom_conditions (lines 149-152) passes
SignificantEthicalDevelopment(fw) ==
    /\ AtLeast(fw.empathy, 600000)
    /\ AtLeast(fw.harmony, 500000)

\* C30 (SpecCons; also checked under Spec): in every state reached from a
\* freshly constructed consciousness layer by update() with events of the
\* event source, adjust() and rebirth calls, empathy >= 0.6 and harmony >= 0.5
\* do not both hold, for the initial framework as for every re-normalised
\* one; so check_silent_bloom_conditions() is false in every such state,
\* every check_bloom() call answers false, and the test of the driver's bloom
\* branch is false wherever the driver evaluates it.
C30_BloomNeverHolds ==
    /\ ~SignificantEthicalDevelopment(ethical_framework)
    /\ ~check_silent_bloom_conditions(level, thought_history, ethical_framework)
    /\ IsCall("check_bloom") => last_call.result = FALSE

\* check_bloom() has answered false at level 1.0 (above the bloom threshold),
\* on a framework that a positive-impact update has raised and re-normalised
C30_Witness ==
    /\ IsCall("check_bloom")
    /\ calls = MaxConsCalls
    /\ last_call.result = FALSE
    /\ AtLeast(level, silent_bloom_threshold)
    /\ ethical_framework # InitialEthicalFramework
    /\ Above(ethical_framework.empathy, 100000)

\* the number of positions of `list` that hold the record `id`
Occurrences(list, id) == Cardinality({i \in 1..Len(list) : list[i] = id})

\* C31 (SpecMem): after process_rebirth() on a store of which N entries were
\* selected for inheritance, the store holds (number of pre-rebirth entries
\* with significance >= 0.2) + N entries; every selected memory that itself
\* passed the prune is in the store at least twice, as one and the same
\* record, with its significance scaled down (at most half of what it was).
\* So the store after a rebirth can hold repeated records and entries below
\* the prune threshold.
C31_RebirthStoreSize ==
    [][last_call'.op = "process_rebirth" =>
          LET selected == last_call'.args.selected
              passed == {i \in 1..Len(memories) :
                            AtLeast(mem_heap[memories[i]].significance, ForgetThresholdDefault)}
          IN  /\ Len(memories') = Cardinality(passed) + Len(selected)
              /\ \A i \in 1..Len(selected) :
                    AtLeast(mem_heap[selected[i]].significance, ForgetThresholdDefault)
                       => /\ Occurrences(memories', selected[i]) >= 2
                          /\ FLeq(FAdd(mem_heap'[selected[i]].significance,
                                           mem_heap'[selected[i]].significance),
                                    mem_heap[selected[i]].significance)
                          /\ Above(mem_heap'[selected[i]].significance, 0)]_vars

\* a rebirth has left a record that passed the prune twice in the store, at a
\* significance now below the prune threshold
C31_Witness ==
    /\ IsCall("process_rebirth")
    /\ \E i \in 1..Len(last_call.args.selected) :
          /\ AtLeast(last_call.args.significances[i], ForgetThresholdDefault)
          /\ Occurrences(memories, last_call.args.selected[i]) >= 2
          /\ Below(mem_heap[last_call.args.selected[i]].significance, ForgetThresholdDefault)

\* the lowest significance generate_event can return: base 0.5 less 0.1
MinGeneratedSignificance == 400000

\* C32 (Spec): in the tick pipeline every generated event has significance
\* >= 0.4 and the emotion process() produced for it has that intensity (at
\* most 1.0), so their mean passes the storage threshold: every store()
\* statement of the run appends exactly one Memory, built from the tick's
\* event, and the store changes in no other statement but the rebirth; the
\* store grows by exactly one per tick between rebirths.
C32_EveryTickStoresOne ==
    [][/\ pc = "store_experience" /\ pc' = "process_experience" =>
             LET response == emotion_history[emotional_response]
             IN  /\ AtLeast(event.significance, MinGeneratedSignificance)
                 /\ response.intensity =
                       (IF Above(event.significance, One) THEN D(One)
                        ELSE event.significance)
                 /\ AtLeast(FDiv(FAdd(event.significance, response.intensity), FInt(2)),
                            memory_threshold)
                 /\ Len(memories') = Len(memories) + 1
                 /\ SubSeq(memories', 1, Len(memories)) = memories
                 /\ memories'[Len(memories')] \notin DOMAIN mem_heap
                 /\ mem_heap'[memories'[Len(memories')]].content = event.description
                 /\ AtLeast(mem_heap'[memories'[Len(memories')]].significance,
                            MinGeneratedSignificance)
       /\ pc \notin {"store_experience", "process_rebirth"} => memories' = memories]_vars

\* the store() of a tick has appended the memory of an event of the lowest
\* significance, 0.4
C32_Witness ==
    /\ pc = "process_experience"
    /\ event.significance = D(MinGeneratedSignificance)
    /\ memories # <<>>
    /\ mem_heap[memories[Len(memories)]].significance = D(MinGeneratedSignificance)
    /\ mem_heap[memories[Len(memories)]].content = event.description
    /\ total_events >= 1

\* the emotion names process() yields for the event kinds of the event source
PipelineEmotions == {"curiosity", "love", "sadness", "wonder"}

\* the emotional peaks the rebirth engine would take from the emotion engine
\* it holds in the present state
PeaksFromPipeline ==
    UpdatePeaks(current_life_metrics.emotional_peaks, RebirthEngineEmotionalState)

\* C33 (Spec): for every event kind the event source can generate, process()
\* yields an emotion name in {curiosity, love, sadness, wonder}, with
\* challenge, growth and reflection falling through to wonder; so no emotion
\* record of the run, current or in the history, is named joy or fear, no
\* emotional peak taken from them is, and evolve applies none of its joy and
\* fear rules: on such peaks it amounts to its love and curiosity rules alone.
C33_NoJoyNoFear ==
    /\ \A t \in EventTypes : determine_emotion_type(t) \in PipelineEmotions
    /\ \A t \in {"challenge", "growth", "reflection"} : determine_emotion_type(t) = "wonder"
    /\ \A i \in 1..Len(emotion_history) :
          /\ emotion_history[i].trigger \in EventTypes
          /\ emotion_history[i].type \in PipelineEmotions
    /\ EmotionTypes(current_emotions) \subseteq PipelineEmotions
    /\ DOMAIN PeaksFromPipeline \cap {"joy", "fear"} = {}
    /\ evolve_from_emotions(traits, PeaksFromPipeline) =
          AdjustAll(traits,
                    (IF "love" \in DOMAIN PeaksFromPipeline
                     THEN <<<<"empathy", 6>>, <<"harmony", 4>>>> ELSE <<>>)
                    \o (IF "curiosity" \in DOMAIN PeaksFromPipeline
                        THEN <<<<"curiosity", 5>>, <<"creativity", 3>>>> ELSE <<>>))
    /\ \A i \in 1..Len(evolution_history) :
          DOMAIN evolution_history[i].life_metrics.emotional_peaks \cap {"joy", "fear"} = {}

\* the run has processed a growth event, felt as wonder, and a connection
\* event, felt as love; both are current records and would be taken as peaks
C33_Witness ==
    /\ \E i \in 1..Len(emotion_history) :
          emotion_history[i].trigger = "growth" /\ emotion_history[i].type = "wonder"
    /\ \E i \in 1..Len(emotion_history) :
          emotion_history[i].trigger = "connection" /\ emotion_history[i].type = "love"
    /\ {"love", "wonder"} \subseteq EmotionTypes(current_emotions)
    /\ {"love", "wonder"} \subseteq DOMAIN PeaksFromPipeline

(***************************************************************************)
(* Runs of consecutive update() calls on a freshly constructed layer, with *)
(* one rebirth: `calls` counts the updates since construction or since the *)
(* rebirth.  The events have the fields of a generated event that the      *)
(* level and the thoughts depend on (type, significance, is_novel); they   *)
(* carry no ethical_impact, so the framework stays as constructed over the *)
(* whole run.                                                              *)
(***************************************************************************)
MaxGrowthUpdates == 20
MaxGrowthRebirths == 1
UpdatesToSaturate == 18

\* the event of least impact (significance 0.4, not novel) and the one of
\* greatest impact (significance 0.9, novel)
GrowthEvents ==
    {[type |-> e.type, description |-> e.description, significance |-> e.significance,
      emotional_tags |-> e.emotional_tags, is_novel |-> e.is_novel, timestamp |-> e.timestamp] :
        e \in {MakeEvent("reflection", 1, variation_of(RandomLeast), RandomHalf, D(0)),
               MakeEvent("loss", 1, variation_of(RandomGreatest), D(900000), D(0))}}

GrowthUpdate(ev) ==
    /\ calls < MaxGrowthUpdates
    /\ \E response \in {EmotionToDict(generate_emotion(ev.type, calculate_intensity(ev)))} :
          /\ process_experience(ev, response)
          /\ Note("update", [ev |-> ev, response |-> response], <<>>)
    /\ OnlyConsciousness

GrowthRebirth(draw) ==
    /\ Len(evolution_history) < MaxGrowthRebirths
    /\ process_rebirth(draw)
    /\ calls' = 0
    /\ last_call' = [op |-> "process_rebirth",
                     args |-> [level_before |-> level, updates |-> calls],
                     result |-> <<>>]
    /\ UNCHANGED mainVars

InitGrowth ==
    /\ InitComponents(PatternMixed, 0)
    /\ InitConsciousness
    /\ InitMainIdle
    /\ InitHarness

NextGrowth ==
    \/ \E ev \in GrowthEvents : GrowthUpdate(ev)
    \/ \E draw \in {NoMutation} : GrowthRebirth(draw)

SpecGrowth == InitGrowth /\ [][NextGrowth]_vars

\* C34 (SpecGrowth): every update() raises the level by more than 0.05 unless
\* it is clamped at 1.0; so after 18 consecutive updates without a rebirth,
\* from the constructed level 0.1 or from the level 0.4 a rebirth leaves, the
\* level is 1.0 and the tier transcendent, and a rebirth that follows 18 or
\* more updates lowers the level from 1.0 to 0.4.
C34_LevelSaturates ==
    [][/\ last_call'.op = "update" =>
             /\ level' = FMin(D(One), FAdd(level, calculate_consciousness_impact(
                                                   last_call'.args.ev, last_call'.args.response)))
             /\ IF Below(level', One) THEN FLess(FAdd(level, D(50000)), level')
                ELSE FLeq(level, level')
       /\ calls' >= UpdatesToSaturate => (level' = D(One) /\ awareness_type' = "transcendent")
       /\ (last_call'.op = "process_rebirth" /\ calls >= UpdatesToSaturate) =>
             /\ level = D(One)
             /\ level' = FMul(D(rebirth_threshold), D(RetainedShare))
             /\ level' = D(400000)
             /\ awareness_type' = "emotional"]_vars

\* a rebirth after 18 updates has taken the level from 1.0 to 0.4
C34_Witness ==
    /\ last_call.op = "process_rebirth"
    /\ last_call.args.updates = UpdatesToSaturate
    /\ last_call.args.level_before = D(One)
    /\ level = D(400000)
    /\ calls = 0

====
